---- MODULE Spec2Model ----
(***************************************************************************)
(* Classpresso pattern detection: detectConsolidatablePatterns and the     *)
(* helpers it calls (calculateBytesSaved, calculatePatternCSSOverhead,     *)
(* generateSequentialName, isHydrationSafe).  Strings are TLA+ strings;    *)
(* arrays are sequences in JavaScript order; a Map is the sequence of its  *)
(* values in insertion order.                                              *)
(***************************************************************************)
EXTENDS Integers, Sequences, FiniteSets, TLC

VARIABLES
    occurrences,            \* Map<string, ClassOccurrence>, in insertion order
    config,                 \* ClasspressoConfig fields the detector reads
    mergeablePatterns,      \* optional Set<string> (Undefined when not passed)
    pc,                     \* position inside detectConsolidatablePatterns
    preliminaryCandidates,  \* first-pass survivors {occurrence, cssOverhead}
    filteredCandidates,     \* second-pass survivors
    candidates,             \* named candidates, before the final sort
    result,                 \* the returned array
    bytesCall,              \* one call of calculateBytesSaved
    hashCall,               \* one call of a function of utils/hash.ts
    scanCall                \* calls of shouldExcludeClass / normalizeClassString

detectorVars == <<occurrences, config, mergeablePatterns, pc,
                  preliminaryCandidates, filteredCandidates, candidates,
                  result>>

callVars == <<bytesCall, hashCall, scanCall>>

vars == <<occurrences, config, mergeablePatterns, pc, preliminaryCandidates,
          filteredCandidates, candidates, result, bytesCall, hashCall,
          scanCall>>

----------------------------------------------------------------------------
(* Bounds of the explored inputs *)

\* largest number of generated ("filler") occurrences in the map
MaxFill == 37

\* largest number of hand-written occurrences added to the map
MaxFree == 2

\* largest frequency passed to calculateBytesSaved
MaxFrequency == 5

\* largest index / count passed to generateSequentialName and
\* calculateMinHashLength (reaches the three-symbol names)
MaxIndex == 1340

\* largest count passed to generateSequentialNames
MaxNames == 40

\* longest list passed to resolveCollisions
MaxList == 3

----------------------------------------------------------------------------
(* utils/hash.ts *)

ALPHABET == "abcdefghijklmnopqrstuvwxyz0123456789"

BASE == Len(ALPHABET)

\* ALPHABET[k], zero-based
AlphabetAt(k) == SubSeq(ALPHABET, k + 1, k + 1)

\* variant: ordinary positional base 36 (no borrow of one per position)
RECURSIVE SequentialNameLoop_Positional(_, _)
SequentialNameLoop_Positional(n, acc) ==
    LET r == AlphabetAt(n % BASE) \o acc
        m == n \div BASE
    IN  IF m > 0 THEN SequentialNameLoop_Positional(m, r) ELSE r

\* variant: each new symbol is appended instead of prepended
RECURSIVE SequentialNameLoop_Append(_, _)
SequentialNameLoop_Append(n, acc) ==
    LET r == acc \o AlphabetAt(n % BASE)
        m == (n \div BASE) - 1
    IN  IF m >= 0 THEN SequentialNameLoop_Append(m, r) ELSE r

RECURSIVE SequentialNameLoop(_, _)
SequentialNameLoop(n, acc) ==
    LET r == AlphabetAt(n % BASE) \o acc
        m == (n \div BASE) - 1
    IN  IF m >= 0 THEN SequentialNameLoop(m, r) ELSE r

\* variant: only the last symbol is produced (no carry into a second symbol)
generateSequentialName_SingleSymbol(index, prefix) ==
    prefix \o AlphabetAt(index % BASE)

generateSequentialName_Positional(index, prefix) ==
    prefix \o SequentialNameLoop_Positional(index, "")

generateSequentialName_Append(index, prefix) ==
    prefix \o SequentialNameLoop_Append(index, "")

generateSequentialName(index, prefix) ==
    prefix \o SequentialNameLoop(index, "")

\* generateSequentialNames: for (let i = 0; i < count; i++) names.push(...)
RECURSIVE SequentialNamesLoop(_, _, _, _)
SequentialNamesLoop(i, count, prefix, names) ==
    IF i < count
    THEN SequentialNamesLoop(i + 1, count, prefix,
                             Append(names, generateSequentialName(i, prefix)))
    ELSE names

\* variant: the loop runs to i <= count
generateSequentialNames_Inclusive(count, prefix) ==
    SequentialNamesLoop(0, count + 1, prefix, <<>>)

generateSequentialNames(count, prefix) ==
    SequentialNamesLoop(0, count, prefix, <<>>)

\* Math.ceil(Math.log(x) / Math.log(BASE)) for x >= 1: the least k with
\* BASE^k >= x.  The floating-point quotient gives the same integer for
\* every x below 36^3 (it is exactly 1 at 36 and exactly 2 at 1296).
RECURSIVE CeilLogBase(_, _, _)
CeilLogBase(x, k, power) ==
    IF power >= x THEN k ELSE CeilLogBase(x, k + 1, power * BASE)

MathMax(a, b) == IF a >= b THEN a ELSE b

calculateMinHashLength(count) ==
    IF count <= 0 THEN 1
    ELSE MathMax(1, CeilLogBase(count + 1, 0, 1))

\* resolveCollisions, the while loop: the first of hashName, hashName1,
\* hashName2, ... that hashMap does not hold for a different normalizedKey
RECURSIVE CollisionFreeName(_, _, _, _)
CollisionFreeName(candidate, hashMap, hash, suffix) ==
    IF hash \in DOMAIN hashMap
         /\ hashMap[hash].normalizedKey # candidate.normalizedKey
    THEN CollisionFreeName(candidate, hashMap,
                           candidate.hashName \o ToString(suffix + 1),
                           suffix + 1)
    ELSE hash

\* resolveCollisions, the for loop from candidates[i] on
RECURSIVE ResolveLoop(_, _, _)
ResolveLoop(cands, i, hashMap) ==
    IF i > Len(cands) THEN cands
    ELSE LET hash == CollisionFreeName(cands[i], hashMap,
                                       cands[i].hashName, 0)
             renamed == [cands[i] EXCEPT !.hashName = hash]
         IN  ResolveLoop([cands EXCEPT ![i] = renamed], i + 1,
                         [h \in DOMAIN hashMap \cup {hash} |->
                            IF h = hash THEN renamed ELSE hashMap[h]])

\* variant: every candidate keeps the name it came with
resolveCollisions_Unchanged(cands) == cands

resolveCollisions(cands) == ResolveLoop(cands, 1, <<>>)

----------------------------------------------------------------------------
(* core/metrics.ts *)

baseOverhead == 15

perClassOverhead == 20

calculatePatternCSSOverhead(classes) ==
    baseOverhead + (Len(classes) * perClassOverhead)

hasNetPositiveSavings(candidate) ==
    candidate.bytesSaved > calculatePatternCSSOverhead(candidate.classes)

----------------------------------------------------------------------------
(* core/pattern-detector.ts *)

\* Array.prototype.join(' ')
RECURSIVE JoinSpace(_)
JoinSpace(xs) ==
    IF Len(xs) = 0 THEN ""
    ELSE IF Len(xs) = 1 THEN xs[1]
    ELSE xs[1] \o " " \o JoinSpace(Tail(xs))

\* String.prototype.repeat
RECURSIVE Repeat(_, _)
Repeat(s, n) == IF n <= 0 THEN "" ELSE s \o Repeat(s, n - 1)

\* variant: the separator byte before the excluded tokens is not subtracted
calculateBytesSaved_NoSeparator(original, hashName, frequency, excludedClasses) ==
    (Len(original) - Len(JoinSpace(excludedClasses)) - Len(hashName))
        * frequency

calculateBytesSaved(original, hashName, frequency, excludedClasses) ==
    LET originalLength == Len(original)
        excludedLength == Len(JoinSpace(excludedClasses))
        includedLength == originalLength - excludedLength
                            - (IF Len(excludedClasses) > 0 THEN 1 ELSE 0)
        newLength == Len(hashName)
        savingsPerOccurrence == includedLength - newLength
    IN  savingsPerOccurrence * frequency

\* core/scanner.ts isHydrationSafe: observed in both markup and script
isHydrationSafe(occurrence) ==
    /\ "html" \in occurrence.sourceTypes
    /\ "js" \in occurrence.sourceTypes

\* the optional argument: not passed (undefined), or a Set<string>
Undefined == [passed |-> FALSE, keys |-> {}]

SetOf(keys) == [passed |-> TRUE, keys |-> keys]

\* variant: the minimum-occurrences test is missing
PassesEligibility_NoMinOccurrences(occurrence, cfg, mergeable) ==
    /\ ~(Len(occurrence.classes) < cfg.minClasses)
    /\ ~(cfg.ssr /\ ~isHydrationSafe(occurrence))
    /\ ~(cfg.ssr /\ mergeable.passed
            /\ occurrence.normalizedKey \in mergeable.keys)
    /\ ~(cfg.skipPatternsWithExcludedClasses
            /\ Len(occurrence.excludedClasses) > 0)

\* variant: the mergeable set is applied whether or not ssr is set
PassesEligibility_MergeableAlways(occurrence, cfg, mergeable) ==
    /\ ~(occurrence.count < cfg.minOccurrences)
    /\ ~(Len(occurrence.classes) < cfg.minClasses)
    /\ ~(cfg.ssr /\ ~isHydrationSafe(occurrence))
    /\ ~(mergeable.passed /\ occurrence.normalizedKey \in mergeable.keys)
    /\ ~(cfg.skipPatternsWithExcludedClasses
            /\ Len(occurrence.excludedClasses) > 0)

\* variant: the hydration-safety test is missing
PassesEligibility_NoHydrationCheck(occurrence, cfg, mergeable) ==
    /\ ~(occurrence.count < cfg.minOccurrences)
    /\ ~(Len(occurrence.classes) < cfg.minClasses)
    /\ ~(cfg.ssr /\ mergeable.passed
            /\ occurrence.normalizedKey \in mergeable.keys)
    /\ ~(cfg.skipPatternsWithExcludedClasses
            /\ Len(occurrence.excludedClasses) > 0)

\* variant: forceAll switches both hydration filters off
PassesEligibility_ForceAllBypass(occurrence, cfg, mergeable) ==
    /\ ~(occurrence.count < cfg.minOccurrences)
    /\ ~(Len(occurrence.classes) < cfg.minClasses)
    /\ ~(cfg.ssr /\ ~cfg.forceAll /\ ~isHydrationSafe(occurrence))
    /\ ~(cfg.ssr /\ ~cfg.forceAll /\ mergeable.passed
            /\ occurrence.normalizedKey \in mergeable.keys)
    /\ ~(cfg.skipPatternsWithExcludedClasses
            /\ Len(occurrence.excludedClasses) > 0)

\* variant: the skipPatternsWithExcludedClasses test is missing
PassesEligibility_NoSkipExcluded(occurrence, cfg, mergeable) ==
    /\ ~(occurrence.count < cfg.minOccurrences)
    /\ ~(Len(occurrence.classes) < cfg.minClasses)
    /\ ~(cfg.ssr /\ ~isHydrationSafe(occurrence))
    /\ ~(cfg.ssr /\ mergeable.passed
            /\ occurrence.normalizedKey \in mergeable.keys)

\* the loop body of the first pass: TRUE when the occurrence is pushed
PassesEligibility(occurrence, cfg, mergeable) ==
    /\ ~(occurrence.count < cfg.minOccurrences)
    /\ ~(Len(occurrence.classes) < cfg.minClasses)
    /\ ~(cfg.ssr /\ ~isHydrationSafe(occurrence))
    /\ ~(cfg.ssr /\ mergeable.passed
            /\ occurrence.normalizedKey \in mergeable.keys)
    /\ ~(cfg.skipPatternsWithExcludedClasses
            /\ Len(occurrence.excludedClasses) > 0)

\* Array.prototype.filter, keeping order
RECURSIVE FilterSeq(_, _)
FilterSeq(xs, keep) ==
    IF Len(xs) = 0 THEN <<>>
    ELSE IF keep[1] THEN <<xs[1]>> \o FilterSeq(Tail(xs), Tail(keep))
    ELSE FilterSeq(Tail(xs), Tail(keep))

\* Array.prototype.sort((a, b) => key(b) - key(a)): stable, descending.
\* keys[i] is the key of xs[i]; the result is the sorted order of indices.
RECURSIVE SortedIndicesDesc(_, _)
SortedIndicesDesc(keys, n) ==
    IF n = 0 THEN <<>>
    ELSE LET prev == SortedIndicesDesc(keys, n - 1)
             p == Cardinality({k \in 1..Len(prev) : keys[prev[k]] >= keys[n]})
         IN  SubSeq(prev, 1, p) \o <<n>> \o SubSeq(prev, p + 1, Len(prev))

SortDescBy(xs, keys) ==
    LET order == SortedIndicesDesc(keys, Len(xs))
    IN  [i \in 1..Len(xs) |-> xs[order[i]]]

\* variant: the frequency sort is missing
sortByFrequency_Unsorted(entries) == entries

\* line 93: preliminaryCandidates.sort((a, b) => b.occurrence.count - a.occurrence.count)
sortByFrequency(entries) ==
    SortDescBy(entries, [i \in 1..Len(entries) |-> entries[i].occurrence.count])

\* variant: the final sort is missing
sortByBytesSaved_Unsorted(cands) == cands

\* line 155: candidates.sort((a, b) => b.bytesSaved - a.bytesSaved)
sortByBytesSaved(cands) ==
    SortDescBy(cands, [i \in 1..Len(cands) |-> cands[i].bytesSaved])

\* the loop body of the second pass: the placeholder estimate
estimatedBytesSaved(occurrence, cfg) ==
    LET estimatedNameLength == Len(cfg.hashPrefix) + 1
    IN  calculateBytesSaved(occurrence.classString,
                            Repeat("x", estimatedNameLength),
                            occurrence.count,
                            occurrence.excludedClasses)

\* variant: the net-positive test is applied whatever forceAll says
PassesByteFilter_NetPositiveAlways(entry, cfg) ==
    LET est == estimatedBytesSaved(entry.occurrence, cfg)
    IN  /\ ~(est < cfg.minBytesSaved)
        /\ ~(est <= entry.cssOverhead)

PassesByteFilter(entry, cfg) ==
    LET est == estimatedBytesSaved(entry.occurrence, cfg)
    IN  /\ ~(est < cfg.minBytesSaved)
        /\ ~(~cfg.forceAll /\ est <= entry.cssOverhead)

\* variant: the candidate reports the normalized key as its class string
NamedCandidate_NormalizedString(entry, i, cfg) ==
    LET occurrence == entry.occurrence
        hashName == generateSequentialName(i, cfg.hashPrefix)
        bytesSaved == calculateBytesSaved(occurrence.normalizedKey, hashName,
                                          occurrence.count,
                                          occurrence.excludedClasses)
    IN  [classString |-> occurrence.normalizedKey,
         normalizedKey |-> occurrence.normalizedKey,
         frequency |-> occurrence.count,
         bytesSaved |-> bytesSaved,
         classes |-> occurrence.classes,
         excludedClasses |-> occurrence.excludedClasses,
         hashName |-> hashName]

\* variant: the name index is counted from 1
NamedCandidate_OneBased(entry, i, cfg) ==
    LET occurrence == entry.occurrence
        hashName == generateSequentialName(i + 1, cfg.hashPrefix)
        bytesSaved == calculateBytesSaved(occurrence.classString, hashName,
                                          occurrence.count,
                                          occurrence.excludedClasses)
    IN  [classString |-> occurrence.classString,
         normalizedKey |-> occurrence.normalizedKey,
         frequency |-> occurrence.count,
         bytesSaved |-> bytesSaved,
         classes |-> occurrence.classes,
         excludedClasses |-> occurrence.excludedClasses,
         hashName |-> hashName]

\* the loop body of the third pass, for filteredCandidates[i + 1]
NamedCandidate(entry, i, cfg) ==
    LET occurrence == entry.occurrence
        hashName == generateSequentialName(i, cfg.hashPrefix)
        bytesSaved == calculateBytesSaved(occurrence.classString, hashName,
                                          occurrence.count,
                                          occurrence.excludedClasses)
    IN  [classString |-> occurrence.classString,
         normalizedKey |-> occurrence.normalizedKey,
         frequency |-> occurrence.count,
         bytesSaved |-> bytesSaved,
         classes |-> occurrence.classes,
         excludedClasses |-> occurrence.excludedClasses,
         hashName |-> hashName]

\* lines 48-156 as one function: the three passes and the two sorts
detectConsolidatablePatterns(occs, cfg, mergeable) ==
    LET kept == FilterSeq(occs, [i \in 1..Len(occs) |->
                                   PassesEligibility(occs[i], cfg, mergeable)])
        prelim == sortByFrequency(
                    [i \in 1..Len(kept) |->
                       [occurrence |-> kept[i],
                        cssOverhead |->
                            calculatePatternCSSOverhead(kept[i].classes)]])
        filtered == FilterSeq(prelim, [i \in 1..Len(prelim) |->
                                         PassesByteFilter(prelim[i], cfg)])
    IN  sortByBytesSaved([k \in 1..Len(filtered) |->
                            NamedCandidate(filtered[k], k - 1, cfg)])

----------------------------------------------------------------------------
(* Inputs *)

Occ(cs, key, cnt, cls, excl, st) ==
    [classString |-> cs, normalizedKey |-> key, count |-> cnt,
     classes |-> cls, excludedClasses |-> excl, sourceTypes |-> st]

\* generated occurrences: distinct keys, frequencies 10, 11, 12
FillOcc(i) ==
    Occ("flex items-center gap-" \o ToString(i),
        "flex gap-" \o ToString(i) \o " items-center",
        10 + (i % 3),
        <<"flex", "items-center", "gap-" \o ToString(i)>>,
        <<>>,
        {"html", "js"})

FillSizes == {0, 1, MaxFill - 2, MaxFill}

FreeOccs ==
    << Occ("flex gap-2 p-4", "flex gap-2 p-4", 8,
           <<"flex", "gap-2", "p-4">>, <<>>, {"html", "js"}),
       Occ("flex gap-2", "flex gap-2", 5,
           <<"flex", "gap-2">>, <<>>, {"js"}),
       Occ("hidden md:flex items-center justify-between w-full",
           "hidden items-center justify-between w-full", 12,
           <<"hidden", "items-center", "justify-between", "w-full">>,
           <<"md:flex">>, {"html", "js"}),
       Occ("flex", "flex", 20, <<"flex">>, <<>>, {"html"}),
       Occ("flex items-center justify-center gap-4 p-4",
           "flex gap-4 items-center justify-center p-4", 1,
           <<"flex", "items-center", "justify-center", "gap-4", "p-4">>,
           <<>>, {"html", "js", "rsc"}),
       Occ("grid grid-cols-3 gap-6 rounded-lg shadow-md js-card",
           "gap-6 grid grid-cols-3 rounded-lg shadow-md", 9,
           <<"grid", "grid-cols-3", "gap-6", "rounded-lg", "shadow-md">>,
           <<"js-card">>, {"html"}) >>

\* the hand-written part of the map: up to MaxFree catalogue entries, in
\* catalogue order
FreeSelections ==
    {s \in SUBSET (1..Len(FreeOccs)) : Cardinality(s) <= MaxFree}

RECURSIVE SetToSeq(_)
SetToSeq(s) ==
    IF s = {} THEN <<>>
    ELSE LET m == CHOOSE x \in s : \A y \in s : x <= y
         IN  <<m>> \o SetToSeq(s \ {m})

FreeSeq(sel) ==
    LET idx == SetToSeq(sel) IN [k \in 1..Len(idx) |-> FreeOccs[idx[k]]]

Thresholds ==
    { [minOccurrences |-> 2, minClasses |-> 2, minBytesSaved |-> 10,
       hashPrefix |-> "cp-"],
      [minOccurrences |-> 1, minClasses |-> 1, minBytesSaved |-> 0,
       hashPrefix |-> "cp-"],
      [minOccurrences |-> 2, minClasses |-> 2, minBytesSaved |-> 80,
       hashPrefix |-> "cp-"],
      [minOccurrences |-> 3, minClasses |-> 3, minBytesSaved |-> 10,
       hashPrefix |-> "_"] }

MergeableChoices ==
    { Undefined,
      SetOf({"flex gap-2 p-4"}),
      SetOf({"flex gap-2", "hidden items-center justify-between w-full",
             "flex gap-1 items-center"}) }

Configs ==
    { [minOccurrences |-> t.minOccurrences, minClasses |-> t.minClasses,
       minBytesSaved |-> t.minBytesSaved, hashPrefix |-> t.hashPrefix,
       ssr |-> s, forceAll |-> f, skipPatternsWithExcludedClasses |-> k] :
      t \in Thresholds, s \in BOOLEAN, f \in BOOLEAN, k \in BOOLEAN }

----------------------------------------------------------------------------
(* No call in progress *)

NoBytesCall ==
    [original |-> "", hashName |-> "", frequency |-> 0,
     excludedClasses |-> <<>>, returned |-> FALSE, value |-> 0]

NoHashCall == [op |-> "none"]

NoScanCall == [op |-> "none"]

NoDetectorCall ==
    /\ occurrences = <<>>
    /\ config = [minOccurrences |-> 2, minClasses |-> 2, minBytesSaved |-> 10,
                 hashPrefix |-> "cp-", ssr |-> FALSE, forceAll |-> FALSE,
                 skipPatternsWithExcludedClasses |-> FALSE]
    /\ mergeablePatterns = Undefined
    /\ pc = "idle"
    /\ preliminaryCandidates = <<>>
    /\ filteredCandidates = <<>>
    /\ candidates = <<>>
    /\ result = <<>>

----------------------------------------------------------------------------
(* detectConsolidatablePatterns as a state machine *)

Init ==
    /\ bytesCall = NoBytesCall
    /\ hashCall = NoHashCall
    /\ scanCall = NoScanCall
    /\ \E n \in FillSizes, sel \in FreeSelections :
         occurrences = [i \in 1..n |-> FillOcc(i)] \o FreeSeq(sel)
    /\ config \in Configs
    /\ mergeablePatterns \in MergeableChoices
    /\ pc = "eligibility"
    /\ preliminaryCandidates = <<>>
    /\ filteredCandidates = <<>>
    /\ candidates = <<>>
    /\ result = <<>>

\* lines 59-89: first pass
EligibilityPass ==
    /\ pc = "eligibility"
    /\ preliminaryCandidates' =
         LET keep == [i \in 1..Len(occurrences) |->
                        PassesEligibility(occurrences[i], config,
                                          mergeablePatterns)]
             kept == FilterSeq(occurrences, keep)
         IN  [i \in 1..Len(kept) |->
                [occurrence |-> kept[i],
                 cssOverhead |-> calculatePatternCSSOverhead(kept[i].classes)]]
    /\ pc' = "sortByFrequency"
    /\ UNCHANGED <<occurrences, config, mergeablePatterns, filteredCandidates,
                   candidates, result,
                   bytesCall, hashCall, scanCall>>

\* line 93: sort by frequency, highest first
SortByFrequency ==
    /\ pc = "sortByFrequency"
    /\ preliminaryCandidates' = sortByFrequency(preliminaryCandidates)
    /\ pc' = "byteFilter"
    /\ UNCHANGED <<occurrences, config, mergeablePatterns, filteredCandidates,
                   candidates, result,
                   bytesCall, hashCall, scanCall>>

\* lines 102-124: second pass
ByteFilterPass ==
    /\ pc = "byteFilter"
    /\ filteredCandidates' =
         FilterSeq(preliminaryCandidates,
                   [i \in 1..Len(preliminaryCandidates) |->
                       PassesByteFilter(preliminaryCandidates[i], config)])
    /\ pc' = "naming"
    /\ UNCHANGED <<occurrences, config, mergeablePatterns,
                   preliminaryCandidates, candidates, result,
                   bytesCall, hashCall, scanCall>>

\* lines 129-152: third pass
NamingPass ==
    /\ pc = "naming"
    /\ candidates' =
         [k \in 1..Len(filteredCandidates) |->
             NamedCandidate(filteredCandidates[k], k - 1, config)]
    /\ pc' = "sortByBytesSaved"
    /\ UNCHANGED <<occurrences, config, mergeablePatterns,
                   preliminaryCandidates, filteredCandidates, result,
                   bytesCall, hashCall, scanCall>>

\* line 155: sort by bytes saved, highest first, and return
SortByBytesSaved ==
    /\ pc = "sortByBytesSaved"
    /\ result' = sortByBytesSaved(candidates)
    /\ candidates' = result'
    /\ pc' = "done"
    /\ UNCHANGED <<occurrences, config, mergeablePatterns,
                   preliminaryCandidates, filteredCandidates,
                   bytesCall, hashCall, scanCall>>

Next ==
    \/ EligibilityPass
    \/ SortByFrequency
    \/ ByteFilterPass
    \/ NamingPass
    \/ SortByBytesSaved

Spec == Init /\ [][Next]_vars

TypeOK ==
    /\ pc \in {"eligibility", "sortByFrequency", "byteFilter", "naming",
               "sortByBytesSaved", "done"}
    /\ Len(result) <= Len(occurrences)

----------------------------------------------------------------------------
(* detectConsolidatablePatterns called with configuration values that     *)
(* validateConfig rejects: minOccurrences < 1, minClasses < 1, hashPrefix  *)
(* empty.  The detector itself has no test on them (lines 48-156).         *)

OutOfRangeThresholds ==
    { [minOccurrences |-> 0, minClasses |-> 2, minBytesSaved |-> 10,
       hashPrefix |-> "cp-"],
      [minOccurrences |-> 2, minClasses |-> 0, minBytesSaved |-> 10,
       hashPrefix |-> "cp-"],
      [minOccurrences |-> 2, minClasses |-> 2, minBytesSaved |-> 10,
       hashPrefix |-> ""],
      [minOccurrences |-> 0 - 1, minClasses |-> 0 - 1, minBytesSaved |-> 0,
       hashPrefix |-> ""] }

OutOfRangeConfigs ==
    { [minOccurrences |-> t.minOccurrences, minClasses |-> t.minClasses,
       minBytesSaved |-> t.minBytesSaved, hashPrefix |-> t.hashPrefix,
       ssr |-> s, forceAll |-> f, skipPatternsWithExcludedClasses |-> k] :
      t \in OutOfRangeThresholds, s \in BOOLEAN, f \in BOOLEAN,
      k \in BOOLEAN }

InitOutOfRange ==
    /\ bytesCall = NoBytesCall
    /\ hashCall = NoHashCall
    /\ scanCall = NoScanCall
    /\ \E n \in {0, 1}, sel \in FreeSelections :
         occurrences = [i \in 1..n |-> FillOcc(i)] \o FreeSeq(sel)
    /\ config \in OutOfRangeConfigs
    /\ mergeablePatterns = Undefined
    /\ pc = "eligibility"
    /\ preliminaryCandidates = <<>>
    /\ filteredCandidates = <<>>
    /\ candidates = <<>>
    /\ result = <<>>

SpecOutOfRange == InitOutOfRange /\ [][Next]_vars

----------------------------------------------------------------------------
(* calculateBytesSaved, called on its own *)

BytesOriginals ==
    {"", "flex", "flex gap-2", "flex gap-2 js-hook",
     "flex gap-2 js-hook data-test",
     "flex items-center justify-between gap-4"}

BytesNames == {"", "cp-a", "cp-abc", "cp-a-name-longer-than-the-pattern"}

BytesExcluded == {<<>>, <<"js-hook">>, <<"js-hook", "data-test">>}

InitBytes ==
    /\ NoDetectorCall
    /\ hashCall = NoHashCall
    /\ scanCall = NoScanCall
    /\ \E o \in BytesOriginals, h \in BytesNames, f \in 0..MaxFrequency,
          e \in BytesExcluded :
         bytesCall = [original |-> o, hashName |-> h, frequency |-> f,
                      excludedClasses |-> e, returned |-> FALSE, value |-> 0]

CalculateBytesSaved ==
    /\ ~bytesCall.returned
    /\ bytesCall' =
         [bytesCall EXCEPT
            !.returned = TRUE,
            !.value = calculateBytesSaved(bytesCall.original,
                                          bytesCall.hashName,
                                          bytesCall.frequency,
                                          bytesCall.excludedClasses)]
    /\ UNCHANGED <<detectorVars, hashCall, scanCall>>

NextBytes == CalculateBytesSaved

SpecBytes == InitBytes /\ [][NextBytes]_vars

----------------------------------------------------------------------------
(* getPatternSummary, called on its own *)

\* longest candidate list passed to getPatternSummary
MaxCandidates == 3

\* candidates.reduce((sum, c) => sum + ..., 0) over the mapped values
RECURSIVE ReduceSum(_)
ReduceSum(values) ==
    IF values = <<>> THEN 0 ELSE Head(values) + ReduceSum(Tail(values))

\* a / b as the exact quotient numerator / denominator
Quotient(a, b) == [numerator |-> a, denominator |-> b]

\* the number 0
Zero == [numerator |-> 0, denominator |-> 1]

\* variant: the averages are taken without looking at totalPatterns
getPatternSummary_Unguarded(cands) ==
    [totalPatterns |-> Len(cands),
     totalOccurrences |-> ReduceSum([i \in 1..Len(cands) |-> cands[i].frequency]),
     totalBytesSaved |-> ReduceSum([i \in 1..Len(cands) |-> cands[i].bytesSaved]),
     avgFrequency |->
        Quotient(ReduceSum([i \in 1..Len(cands) |-> cands[i].frequency]),
                 Len(cands)),
     avgClassesPerPattern |->
        Quotient(ReduceSum([i \in 1..Len(cands) |-> Len(cands[i].classes)]),
                 Len(cands))]

getPatternSummary(cands) ==
    LET totalPatterns == Len(cands)
        totalOccurrences ==
            ReduceSum([i \in 1..Len(cands) |-> cands[i].frequency])
        totalBytesSaved ==
            ReduceSum([i \in 1..Len(cands) |-> cands[i].bytesSaved])
        totalClasses ==
            ReduceSum([i \in 1..Len(cands) |-> Len(cands[i].classes)])
    IN  [totalPatterns |-> totalPatterns,
         totalOccurrences |-> totalOccurrences,
         totalBytesSaved |-> totalBytesSaved,
         avgFrequency |->
            IF totalPatterns > 0
            THEN Quotient(totalOccurrences, totalPatterns) ELSE Zero,
         avgClassesPerPattern |->
            IF totalPatterns > 0
            THEN Quotient(totalClasses, totalPatterns) ELSE Zero]

Candidate(cs, key, freq, saved, cls, excl, name) ==
    [classString |-> cs, normalizedKey |-> key, frequency |-> freq,
     bytesSaved |-> saved, classes |-> cls, excludedClasses |-> excl,
     hashName |-> name]

\* the candidates of the getPatternSummary tests, and one that loses bytes
SummaryCandidates ==
    { Candidate("flex gap-2", "flex gap-2", 5, 100,
                <<"flex", "gap-2">>, <<>>, "cp-abc"),
      Candidate("flex gap-4", "flex gap-4", 10, 200,
                <<"flex", "gap-4">>, <<>>, "cp-def"),
      Candidate("flex gap-2 items-center", "flex gap-2 items-center", 4, 100,
                <<"flex", "gap-2", "items-center">>, <<>>, "cp-abc"),
      Candidate("flex gap-4", "flex gap-4", 6, 200,
                <<"flex", "gap-4">>, <<>>, "cp-def"),
      Candidate("p-4 js-hook", "p-4", 3, -6, <<"p-4">>, <<"js-hook">>, "cp-a") }

SummaryLists == UNION {[1..n -> SummaryCandidates] : n \in 0..MaxCandidates}

NoSummary ==
    [totalPatterns |-> 0, totalOccurrences |-> 0, totalBytesSaved |-> 0,
     avgFrequency |-> Zero, avgClassesPerPattern |-> Zero]

InitSummary ==
    /\ NoDetectorCall
    /\ hashCall = NoHashCall
    /\ scanCall = NoScanCall
    /\ \E cands \in SummaryLists :
         bytesCall = [op |-> "getPatternSummary", candidates |-> cands,
                      returned |-> FALSE, summary |-> NoSummary]

GetPatternSummary ==
    /\ bytesCall.op = "getPatternSummary" /\ ~bytesCall.returned
    /\ bytesCall' = [bytesCall EXCEPT
                        !.returned = TRUE,
                        !.summary = getPatternSummary(bytesCall.candidates)]
    /\ UNCHANGED <<detectorVars, hashCall, scanCall>>

NextSummary == GetPatternSummary

SpecSummary == InitSummary /\ [][NextSummary]_vars

----------------------------------------------------------------------------
(* utils/hash.ts, each function called on its own *)

HashPrefixes == {"cp-", "x-", ""}

CollisionNames == {"cp-a", "cp-a1", "cp-b"}

CollisionKeys == {"flex gap-2", "flex gap-4", "grid gap-2"}

CollisionEntries ==
    {[hashName |-> h, normalizedKey |-> k] :
        h \in CollisionNames, k \in CollisionKeys}

CollisionLists ==
    UNION {[1..n -> CollisionEntries] : n \in 0..MaxList}

InitHash ==
    /\ NoDetectorCall
    /\ bytesCall = NoBytesCall
    /\ scanCall = NoScanCall
    /\ \/ \E i \in 0..MaxIndex, p \in HashPrefixes :
            hashCall = [op |-> "name", index |-> i, prefix |-> p,
                        returned |-> FALSE, name |-> ""]
       \/ \E n \in 0..MaxNames, p \in HashPrefixes :
            hashCall = [op |-> "names", count |-> n, prefix |-> p,
                        returned |-> FALSE, names |-> <<>>]
       \/ \E n \in (-1)..MaxIndex :
            hashCall = [op |-> "minLength", count |-> n,
                        returned |-> FALSE, length |-> 0]
       \/ \E l \in CollisionLists :
            hashCall = [op |-> "resolve", input |-> l,
                        returned |-> FALSE, candidates |-> l]

GenerateSequentialName ==
    /\ hashCall.op = "name" /\ ~hashCall.returned
    /\ hashCall' =
         [hashCall EXCEPT
            !.returned = TRUE,
            !.name = generateSequentialName(hashCall.index, hashCall.prefix)]
    /\ UNCHANGED <<detectorVars, bytesCall, scanCall>>

GenerateSequentialNames ==
    /\ hashCall.op = "names" /\ ~hashCall.returned
    /\ hashCall' =
         [hashCall EXCEPT
            !.returned = TRUE,
            !.names = generateSequentialNames(hashCall.count, hashCall.prefix)]
    /\ UNCHANGED <<detectorVars, bytesCall, scanCall>>

CalculateMinHashLength ==
    /\ hashCall.op = "minLength" /\ ~hashCall.returned
    /\ hashCall' =
         [hashCall EXCEPT
            !.returned = TRUE,
            !.length = calculateMinHashLength(hashCall.count)]
    /\ UNCHANGED <<detectorVars, bytesCall, scanCall>>

ResolveCollisions ==
    /\ hashCall.op = "resolve" /\ ~hashCall.returned
    /\ hashCall' =
         [hashCall EXCEPT
            !.returned = TRUE,
            !.candidates = resolveCollisions(hashCall.candidates)]
    /\ UNCHANGED <<detectorVars, bytesCall, scanCall>>

NextHash ==
    \/ GenerateSequentialName
    \/ GenerateSequentialNames
    \/ CalculateMinHashLength
    \/ ResolveCollisions

SpecHash == InitHash /\ [][NextHash]_vars

----------------------------------------------------------------------------
(* core/scanner.ts: shouldExcludeClass and normalizeClassString *)

\* largest number of consecutive shouldExcludeClass calls on the same rules
MaxCalls == 2

\* largest number of tokens in a class string
MaxTokens == 3

CharAt(s, i) == SubSeq(s, i, i)

\* String.prototype.startsWith / endsWith / Array.prototype.includes
StartsWith(s, prefix) ==
    Len(prefix) <= Len(s) /\ SubSeq(s, 1, Len(prefix)) = prefix

EndsWith(s, suffix) ==
    Len(suffix) <= Len(s)
      /\ SubSeq(s, Len(s) - Len(suffix) + 1, Len(s)) = suffix

Includes(xs, x) == \E i \in 1..Len(xs) : xs[i] = x

\* A RegExp object: /literal/ or /^literal/, with or without the g flag, and
\* its lastIndex property.
RegExp(anchored, literal, global) ==
    [anchored |-> anchored, literal |-> literal, global |-> global,
     lastIndex |-> 0]

\* the pattern matches the string at the 0-based position i
MatchesAt(re, s, i) ==
    /\ re.anchored => i = 0
    /\ i + Len(re.literal) <= Len(s)
    /\ SubSeq(s, i + 1, i + Len(re.literal)) = re.literal

\* RegExp.prototype.test: without the g flag the search starts at 0 and
\* lastIndex is left alone; with it the search starts at lastIndex, a match
\* sets lastIndex to its end and a failure resets lastIndex to 0.
RegExpTest(re, s) ==
    LET start == IF re.global THEN re.lastIndex ELSE 0
        found == {i \in start..Len(s) : MatchesAt(re, s, i)}
        first == CHOOSE i \in found : \A j \in found : i <= j
    IN  IF found = {}
        THEN [result |-> FALSE,
              regexp |-> IF re.global THEN [re EXCEPT !.lastIndex = 0] ELSE re]
        ELSE [result |-> TRUE,
              regexp |-> IF re.global
                         THEN [re EXCEPT !.lastIndex = first + Len(re.literal)]
                         ELSE re]

\* shouldExcludeClass, the loop over exclude.patterns from patterns[i] on
RECURSIVE PatternsLoop(_, _, _)
PatternsLoop(className, patterns, i) ==
    IF i > Len(patterns) THEN [result |-> FALSE, patterns |-> patterns]
    ELSE LET t == RegExpTest(patterns[i], className)
             tested == [patterns EXCEPT ![i] = t.regexp]
         IN  IF t.result THEN [result |-> TRUE, patterns |-> tested]
             ELSE PatternsLoop(className, tested, i + 1)

\* shouldExcludeClass: the returned boolean and the exclude object as the
\* call leaves it (a missing rule list behaves as an empty one)
shouldExcludeClass(className, exclude) ==
    IF \E i \in 1..Len(exclude.prefixes) :
           StartsWith(className, exclude.prefixes[i])
    THEN [result |-> TRUE, exclude |-> exclude]
    ELSE IF \E i \in 1..Len(exclude.suffixes) :
                EndsWith(className, exclude.suffixes[i])
    THEN [result |-> TRUE, exclude |-> exclude]
    ELSE IF Includes(exclude.classes, className)
    THEN [result |-> TRUE, exclude |-> exclude]
    ELSE LET r == PatternsLoop(className, exclude.patterns, 1)
         IN  [result |-> r.result,
              exclude |-> [exclude EXCEPT !.patterns = r.patterns]]

\* the characters \s matches that occur in the inputs
Whitespace == {" ", "\t", "\n"}

\* classString.split(/\s+/): the pieces between maximal runs of whitespace,
\* empty pieces at the ends included
RECURSIVE SplitLoop(_, _, _, _, _)
SplitLoop(s, i, piece, pieces, inSeparator) ==
    IF i > Len(s) THEN Append(pieces, piece)
    ELSE IF CharAt(s, i) \in Whitespace
    THEN IF inSeparator
         THEN SplitLoop(s, i + 1, piece, pieces, TRUE)
         ELSE SplitLoop(s, i + 1, "", Append(pieces, piece), TRUE)
    ELSE SplitLoop(s, i + 1, piece \o CharAt(s, i), pieces, FALSE)

SplitWhitespace(s) == SplitLoop(s, 1, "", <<>>, FALSE)

\* .filter(Boolean): the empty string is falsy
FilterBoolean(xs) == SelectSeq(xs, LAMBDA x : x # "")

\* the characters of the class names in ascending UTF-16 code-unit order
CodeUnitOrder ==
    "-0123456789:ABCDEFGHIJKLMNOPQRSTUVWXYZ_abcdefghijklmnopqrstuvwxyz"

\* the rank of a character's code unit
CodeUnit(ch) ==
    CHOOSE k \in 1..Len(CodeUnitOrder) : CharAt(CodeUnitOrder, k) = ch

\* the default comparison of Array.prototype.sort: a before b when a is
\* smaller by UTF-16 code units
RECURSIVE CodeUnitsLess(_, _, _)
CodeUnitsLess(a, b, i) ==
    IF i > Len(a) THEN i <= Len(b)
    ELSE IF i > Len(b) THEN FALSE
    ELSE IF CodeUnit(CharAt(a, i)) < CodeUnit(CharAt(b, i)) THEN TRUE
    ELSE IF CodeUnit(CharAt(a, i)) > CodeUnit(CharAt(b, i)) THEN FALSE
    ELSE CodeUnitsLess(a, b, i + 1)

\* Array.prototype.sort() with no comparator (stable)
RECURSIVE InsertSorted(_, _)
InsertSorted(x, sorted) ==
    IF sorted = <<>> THEN <<x>>
    ELSE IF CodeUnitsLess(x, Head(sorted), 1) THEN <<x>> \o sorted
    ELSE <<Head(sorted)>> \o InsertSorted(x, Tail(sorted))

RECURSIVE SortLoop(_, _, _)
SortLoop(xs, i, sorted) ==
    IF i > Len(xs) THEN sorted
    ELSE SortLoop(xs, i + 1, InsertSorted(xs[i], sorted))

DefaultSort(xs) == SortLoop(xs, 1, <<>>)

\* normalizeClassString, the for loop from allClasses[i] on
RECURSIVE ClassifyLoop(_, _, _, _, _)
ClassifyLoop(allClasses, i, exclude, includedClasses, excludedClasses) ==
    IF i > Len(allClasses)
    THEN [exclude |-> exclude, includedClasses |-> includedClasses,
          excludedClasses |-> excludedClasses]
    ELSE LET r == shouldExcludeClass(allClasses[i], exclude)
         IN  IF r.result
             THEN ClassifyLoop(allClasses, i + 1, r.exclude, includedClasses,
                               Append(excludedClasses, allClasses[i]))
             ELSE ClassifyLoop(allClasses, i + 1, r.exclude,
                               Append(includedClasses, allClasses[i]),
                               excludedClasses)

\* variant: the included classes are joined without being sorted
normalizeClassString_Unsorted(classString, exclude) ==
    LET allClasses == FilterBoolean(SplitWhitespace(classString))
        loop == ClassifyLoop(allClasses, 1, exclude, <<>>, <<>>)
    IN  [normalized |-> JoinSpace(loop.includedClasses),
         classes |-> loop.includedClasses,
         excludedClasses |-> loop.excludedClasses,
         exclude |-> loop.exclude]

\* normalizeClassString: the returned object and the exclude object as the
\* call leaves it
normalizeClassString(classString, exclude) ==
    LET allClasses == FilterBoolean(SplitWhitespace(classString))
        loop == ClassifyLoop(allClasses, 1, exclude, <<>>, <<>>)
        sorted == DefaultSort(loop.includedClasses)
    IN  [normalized |-> JoinSpace(sorted),
         classes |-> loop.includedClasses,
         excludedClasses |-> loop.excludedClasses,
         exclude |-> loop.exclude]

----------------------------------------------------------------------------
(* core/scanner.ts, each function called on its own *)

Exclude(prefixes, suffixes, classes, patterns) ==
    [prefixes |-> prefixes, suffixes |-> suffixes, classes |-> classes,
     patterns |-> patterns]

\* the rule objects: none, the two test fixtures, the first fixture with its
\* lists reversed, and patterns carrying the g flag
ExcludeRules ==
    { Exclude(<<>>, <<>>, <<>>, <<>>),
      Exclude(<<"js-", "data-">>, <<"-handler", "-trigger">>,
              <<"no-consolidate">>,
              <<RegExp(TRUE, "qa-", FALSE), RegExp(TRUE, "test-", FALSE)>>),
      Exclude(<<"data-", "js-">>, <<"-trigger", "-handler">>,
              <<"no-consolidate">>,
              <<RegExp(TRUE, "test-", FALSE), RegExp(TRUE, "qa-", FALSE)>>),
      Exclude(<<"js-">>, <<>>, <<>>, <<>>),
      Exclude(<<>>, <<>>, <<>>, <<RegExp(FALSE, "gap", FALSE)>>),
      Exclude(<<>>, <<>>, <<>>, <<RegExp(TRUE, "qa-", TRUE)>>),
      Exclude(<<"js-">>, <<>>, <<>>, <<RegExp(FALSE, "qa", TRUE)>>) }

ClassNames ==
    {"js-onclick", "data-testid", "click-handler", "modal-trigger",
     "no-consolidate", "qa-button", "test-component", "flex", "text-lg",
     "bg-gold", "gap-2", "qa-qa"}

Tokens == {"flex", "gap-2", "items-center", "js-click", "qa-button", "md:flex"}

TokenLists == UNION {[1..n -> Tokens] : n \in 0..MaxTokens}

\* ways of laying the tokens out in a class attribute: the separator between
\* tokens and the text around them
Layouts ==
    { [lead |-> "", between |-> " ", trail |-> ""],
      [lead |-> "", between |-> "   ", trail |-> ""],
      [lead |-> " ", between |-> "\n\t", trail |-> "  "] }

RECURSIVE JoinWith(_, _)
JoinWith(xs, separator) ==
    IF Len(xs) = 0 THEN ""
    ELSE IF Len(xs) = 1 THEN xs[1]
    ELSE xs[1] \o separator \o JoinWith(Tail(xs), separator)

ClassString(tokens, layout) ==
    layout.lead \o JoinWith(tokens, layout.between) \o layout.trail

NoResult == [normalized |-> "", classes |-> <<>>, excludedClasses |-> <<>>]

\* largest number of tokens in each of two class strings normalized one
\* after the other
MaxPairTokens == 2

PairTokens == {"flex", "gap-2", "qa-button"}

PairTokenLists == UNION {[1..n -> PairTokens] : n \in 0..MaxPairTokens}

PlainLayout == [lead |-> "", between |-> " ", trail |-> ""]

InitScan ==
    /\ NoDetectorCall
    /\ bytesCall = NoBytesCall
    /\ hashCall = NoHashCall
    /\ \E e \in ExcludeRules :
         \/ \E t1 \in PairTokenLists, t2 \in PairTokenLists, l \in Layouts :
              scanCall = [op |-> "normalizeTwice",
                          classStrings |-> <<ClassString(t1, PlainLayout),
                                             ClassString(t2, l)>>,
                          rules |-> e, exclude |-> e, results |-> <<>>]
         \/ \E c \in ClassNames :
              scanCall = [op |-> "exclude", className |-> c, rules |-> e,
                          exclude |-> e, results |-> <<>>]
         \/ \E t \in TokenLists, l \in Layouts :
              scanCall = [op |-> "normalize",
                          classString |-> ClassString(t, l), rules |-> e,
                          exclude |-> e, returned |-> FALSE,
                          result |-> NoResult]

\* one call shouldExcludeClass(className, exclude)
ShouldExcludeClass ==
    /\ scanCall.op = "exclude"
    /\ Len(scanCall.results) < MaxCalls
    /\ LET r == shouldExcludeClass(scanCall.className, scanCall.exclude)
       IN  scanCall' = [scanCall EXCEPT
                           !.results = Append(@, r.result),
                           !.exclude = r.exclude]
    /\ UNCHANGED <<detectorVars, bytesCall, hashCall>>

\* the call normalizeClassString(classString, exclude)
NormalizeClassString ==
    /\ scanCall.op = "normalize" /\ ~scanCall.returned
    /\ LET r == normalizeClassString(scanCall.classString, scanCall.exclude)
       IN  scanCall' = [scanCall EXCEPT
                           !.returned = TRUE,
                           !.result = [normalized |-> r.normalized,
                                       classes |-> r.classes,
                                       excludedClasses |-> r.excludedClasses],
                           !.exclude = r.exclude]
    /\ UNCHANGED <<detectorVars, bytesCall, hashCall>>

\* the next of two calls normalizeClassString(classString, exclude) made
\* with the same exclude object, as the loop of scanBuildOutput makes them
NormalizeNextClassString ==
    /\ scanCall.op = "normalizeTwice"
    /\ Len(scanCall.results) < Len(scanCall.classStrings)
    /\ LET classString == scanCall.classStrings[Len(scanCall.results) + 1]
           r == normalizeClassString(classString, scanCall.exclude)
       IN  scanCall' = [scanCall EXCEPT
                           !.results = Append(@, [normalized |-> r.normalized,
                                                  classes |-> r.classes,
                                                  excludedClasses |-> r.excludedClasses]),
                           !.exclude = r.exclude]
    /\ UNCHANGED <<detectorVars, bytesCall, hashCall>>

NextScan ==
    \/ ShouldExcludeClass
    \/ NormalizeClassString
    \/ NormalizeNextClassString

SpecScan == InitScan /\ [][NextScan]_vars

----------------------------------------------------------------------------
(* core/scanner.ts: extractClassStrings and scanBuildOutput.  The content  *)
(* of a file is the sequence of texts captured by ALL_CLASS_PATTERNS, in   *)
(* the order exec yields them, the k-th one on line k; the occurrence Map  *)
(* is the sequence of its [key, value] pairs in insertion order.           *)

\* largest number of files findFiles returns
MaxFiles == 3

InChars(ch, chars) == \E i \in 1..Len(chars) : CharAt(chars, i) = ch

HasSubstring(s, part) ==
    \E i \in 1..(Len(s) - Len(part) + 1) :
        SubSeq(s, i, i + Len(part) - 1) = part

LowerCase == "abcdefghijklmnopqrstuvwxyz"

AlphaNumeric ==
    "abcdefghijklmnopqrstuvwxyzABCDEFGHIJKLMNOPQRSTUVWXYZ0123456789"

\* \w
WordChars == AlphaNumeric \o "_"

\* utils/regex.ts, isDynamicClassString
isDynamicClassString(classString) ==
    \/ HasSubstring(classString, "${")
    \/ /\ InChars("?", classString)
       /\ InChars(":", classString)
    \/ \E i \in 1..Len(classString), j \in 1..Len(classString) :
         /\ i < j
         /\ InChars(CharAt(classString, i), WordChars)
         /\ CharAt(classString, j) = "("
         /\ \A k \in (i + 1)..(j - 1) : CharAt(classString, k) \in Whitespace
    \/ /\ Len(classString) > 0
       /\ InChars(CharAt(classString, 1), LowerCase)
       /\ \A i \in 2..Len(classString) :
            InChars(CharAt(classString, i), AlphaNumeric)
       /\ ~InChars("-", classString)

\* String.prototype.trim
Trim(s) ==
    LET kept == {i \in 1..Len(s) : CharAt(s, i) \notin Whitespace}
    IN  IF kept = {} THEN ""
        ELSE SubSeq(s, CHOOSE i \in kept : \A j \in kept : i <= j,
                       CHOOSE i \in kept : \A j \in kept : j <= i)

\* utils/files.ts: isJSFile, isHTMLFile, isRSCFile
isJSFile(filePath) ==
    \/ EndsWith(filePath, ".js")
    \/ EndsWith(filePath, ".mjs")
    \/ EndsWith(filePath, ".cjs")

isHTMLFile(filePath) ==
    EndsWith(filePath, ".html") \/ EndsWith(filePath, ".htm")

isRSCFile(filePath) == EndsWith(filePath, ".rsc")

\* extractClassStrings, the while loop from the i-th captured text on
RECURSIVE ExtractLoop(_, _, _, _, _)
ExtractLoop(content, i, filePath, seen, results) ==
    IF i > Len(content) THEN results
    ELSE LET classString == content[i]
             key == filePath \o ":" \o classString
         IN  IF classString = "" \/ Trim(classString) = ""
             THEN ExtractLoop(content, i + 1, filePath, seen, results)
             ELSE IF isDynamicClassString(classString)
             THEN ExtractLoop(content, i + 1, filePath, seen, results)
             ELSE IF key \in seen
             THEN ExtractLoop(content, i + 1, filePath, seen, results)
             ELSE ExtractLoop(content, i + 1, filePath, seen \cup {key},
                              Append(results,
                                     [classString |-> Trim(classString),
                                      location |-> [filePath |-> filePath,
                                                    line |-> i]]))

extractClassStrings(content, filePath) ==
    ExtractLoop(content, 1, filePath, {}, <<>>)

\* Map.prototype.has / the position of a key
MapHas(map, key) == \E i \in 1..Len(map) : map[i].key = key

MapIndex(map, key) == CHOOSE i \in 1..Len(map) : map[i].key = key

\* variant: a later sighting replaces the stored class string
RecordSighting_LastSeen(map, classString, location, n) ==
    IF MapHas(map, n.normalized)
    THEN [map EXCEPT ![MapIndex(map, n.normalized)].value =
            [@ EXCEPT !.count = @ + 1,
                      !.locations = Append(@, location),
                      !.classString = classString]]
    ELSE Append(map,
                [key |-> n.normalized,
                 value |-> [classString |-> classString,
                            normalizedKey |-> n.normalized,
                            count |-> 1,
                            locations |-> <<location>>,
                            classes |-> n.classes,
                            excludedClasses |-> n.excludedClasses]])

\* scanBuildOutput lines 188-201: the if/else on occurrences.has(normalized)
RecordSighting(map, classString, location, n) ==
    IF MapHas(map, n.normalized)
    THEN [map EXCEPT ![MapIndex(map, n.normalized)].value =
            [@ EXCEPT !.count = @ + 1,
                      !.locations = Append(@, location)]]
    ELSE Append(map,
                [key |-> n.normalized,
                 value |-> [classString |-> classString,
                            normalizedKey |-> n.normalized,
                            count |-> 1,
                            locations |-> <<location>>,
                            classes |-> n.classes,
                            excludedClasses |-> n.excludedClasses]])

\* the paths findFiles can return, each at most once
FilePaths == {"app.js", "index.html", "page.rsc", "style.css"}

\* file contents: the captured texts of one file
FileContents ==
    { <<>>,
      <<"flex gap-2", "gap-2 flex">>,
      <<"gap-2 flex", " flex gap-2 ", "flex gap-2", "gap-2 flex">>,
      <<"qa-button flex gap-2", "flex gap-2 qa-button">>,
      <<"qa-button", "gap-2", "   ", "${base} flex", "flex", "cn(flex)",
        "open ? flex : hidden">>,
      <<"items-center flex gap-2", "flex gap-2">> }

\* stats.size of a file with this content
FileSize(content) ==
    LET RECURSIVE Total(_)
        Total(i) == IF i > Len(content) THEN 0
                    ELSE Len(content[i]) + 1 + Total(i + 1)
    IN  Total(1)

\* what reading an unreadable file throws
ReadError == "Error: ENOENT: no such file or directory"

\* config.minClasses and config.exclude
ScanConfigs ==
    { [minClasses |-> 2, exclude |-> Exclude(<<>>, <<>>, <<>>, <<>>)],
      [minClasses |-> 2,
       exclude |-> Exclude(<<"js-", "data-">>, <<"-handler", "-trigger">>,
                           <<"no-consolidate">>,
                           <<RegExp(TRUE, "qa-", FALSE),
                             RegExp(TRUE, "test-", FALSE)>>)],
      [minClasses |-> 1,
       exclude |-> Exclude(<<>>, <<>>, <<>>, <<RegExp(TRUE, "qa-", TRUE)>>)],
      [minClasses |-> 3, exclude |-> Exclude(<<>>, <<>>, <<>>, <<>>)] }

\* scanBuildOutput before the for loop (lines 143-154).  pending holds the
\* class strings of the current file that the inner loop has not reached;
\* sightings is a history of the strings that reached line 188, each with
\* what normalizeClassString returned for it.
InitScanBuild ==
    /\ NoDetectorCall
    /\ bytesCall = NoBytesCall
    /\ hashCall = NoHashCall
    /\ \E c \in ScanConfigs :
         scanCall = [op |-> "scanBuildOutput",
                     config |-> c,
                     exclude |-> c.exclude,
                     scanned |-> <<>>,
                     pending |-> <<>>,
                     occurrences |-> <<>>,
                     fileStats |-> <<>>,
                     errors |-> <<>>,
                     sightings |-> <<>>,
                     returned |-> FALSE]

\* the outer loop is between two files; the next file of the list may be
\* any path not yet visited
NextFile(filePath) ==
    /\ scanCall.op = "scanBuildOutput" /\ ~scanCall.returned
    /\ scanCall.pending = <<>>
    /\ Len(scanCall.scanned) < MaxFiles
    /\ filePath \in FilePaths
    /\ ~Includes(scanCall.scanned, filePath)

\* one iteration of the outer loop, lines 158-160: a file of another type
SkipFile ==
    \E filePath \in FilePaths :
      /\ NextFile(filePath)
      /\ ~isJSFile(filePath) /\ ~isHTMLFile(filePath) /\ ~isRSCFile(filePath)
      /\ scanCall' = [scanCall EXCEPT !.scanned = Append(@, filePath)]
      /\ UNCHANGED <<detectorVars, bytesCall, hashCall>>

\* lines 156-173 for a file that is read: the file is recorded in fileStats
\* and its class strings are extracted
ReadFile ==
    \E filePath \in FilePaths, content \in FileContents :
      /\ NextFile(filePath)
      /\ isJSFile(filePath) \/ isHTMLFile(filePath) \/ isRSCFile(filePath)
      /\ scanCall' = [scanCall EXCEPT
                         !.scanned = Append(@, filePath),
                         !.fileStats = Append(@, [path |-> filePath,
                                                  originalSize |->
                                                      FileSize(content),
                                                  modified |-> FALSE]),
                         !.pending = extractClassStrings(content, filePath)]
      /\ UNCHANGED <<detectorVars, bytesCall, hashCall>>

\* one iteration of the inner loop, lines 175-202
RecordClassString ==
    /\ scanCall.op = "scanBuildOutput" /\ ~scanCall.returned
    /\ scanCall.pending # <<>>
    /\ LET classString == Head(scanCall.pending).classString
           location == Head(scanCall.pending).location
           n == normalizeClassString(classString, scanCall.exclude)
       IN  IF Len(n.classes) = 0 \/ Len(n.classes) < scanCall.config.minClasses
           THEN scanCall' = [scanCall EXCEPT !.pending = Tail(@),
                                             !.exclude = n.exclude]
           ELSE scanCall' = [scanCall EXCEPT
                   !.pending = Tail(@),
                   !.exclude = n.exclude,
                   !.occurrences = RecordSighting(@, classString, location, n),
                   !.sightings =
                       Append(@, [classString |-> classString,
                                  location |-> location,
                                  normalized |-> n.normalized,
                                  classes |-> n.classes,
                                  excludedClasses |-> n.excludedClasses])]
    /\ UNCHANGED <<detectorVars, bytesCall, hashCall>>

\* one iteration of the outer loop in which readFileContent or getFileSize
\* throws: lines 162-163, then the catch of lines 203-205
ReadFailure ==
    \E filePath \in FilePaths :
      /\ NextFile(filePath)
      /\ isJSFile(filePath) \/ isHTMLFile(filePath) \/ isRSCFile(filePath)
      /\ scanCall' = [scanCall EXCEPT
                         !.scanned = Append(@, filePath),
                         !.errors = Append(@, "Error scanning " \o filePath
                                                \o ": " \o ReadError)]
      /\ UNCHANGED <<detectorVars, bytesCall, hashCall>>

\* lines 206-210: the list of files is exhausted
ReturnScanResult ==
    /\ scanCall.op = "scanBuildOutput" /\ ~scanCall.returned
    /\ scanCall.pending = <<>>
    /\ scanCall' = [scanCall EXCEPT !.returned = TRUE]
    /\ UNCHANGED <<detectorVars, bytesCall, hashCall>>

NextScanBuild ==
    \/ SkipFile
    \/ ReadFile
    \/ RecordClassString
    \/ ReadFailure
    \/ ReturnScanResult

SpecScanBuild == InitScanBuild /\ [][NextScanBuild]_vars

----------------------------------------------------------------------------
(* Hydration-safety helpers: isProperSubset, detectMergeablePatterns and the
   dynamic-base checks *)

\* longest class list passed to the helpers
MaxSubsetTokens == 3

\* largest number of patterns in the occurrence map passed to
\* detectMergeablePatterns
MaxPatterns == 3

\* variant: equality counts as a subset
isProperSubset_NonStrict(a, b) ==
    {a[i] : i \in 1..Len(a)} \subseteq {b[i] : i \in 1..Len(b)}

\* isProperSubset: the token set of a is a strict subset of the token set
\* of b
isProperSubset(a, b) ==
    LET setA == {a[i] : i \in 1..Len(a)}
        setB == {b[i] : i \in 1..Len(b)}
    IN  /\ Cardinality(setA) < Cardinality(setB)
        /\ \A token \in setA : token \in setB

\* variant: the subset pattern may have been seen in markup as well
detectMergeablePatterns_AnySource(occs) ==
    {occs[i].normalizedKey : i \in
        {i \in 1..Len(occs) :
            \E j \in 1..Len(occs) :
               /\ j # i
               /\ occs[j].sourceTypes = {"html"}
               /\ isProperSubset(occs[i].classes, occs[j].classes)}}

\* detectMergeablePatterns: the keys of the patterns seen only in script
\* whose token set is a strict subset of a pattern seen only in markup
detectMergeablePatterns(occs) ==
    {occs[i].normalizedKey : i \in
        {i \in 1..Len(occs) :
            /\ occs[i].sourceTypes = {"js"}
            /\ \E j \in 1..Len(occs) :
                  /\ j # i
                  /\ occs[j].sourceTypes = {"html"}
                  /\ isProperSubset(occs[i].classes, occs[j].classes)}}

\* new Set(classes)
NewSet(xs) == {xs[i] : i \in 1..Len(xs)}

\* pattern.baseClasses.every(cls => classSet.has(cls))
EveryBasePresent(pattern, classSet) ==
    \A i \in 1..Len(pattern.baseClasses) : pattern.baseClasses[i] \in classSet

\* variant: an exact match counts as a superset
isSupersetOfDynamicBase_NonStrict(classes, dynamicBasePatterns) ==
    \E k \in 1..Len(dynamicBasePatterns) :
        /\ EveryBasePresent(dynamicBasePatterns[k], NewSet(classes))
        /\ Len(classes) >= Len(dynamicBasePatterns[k].baseClasses)

isSupersetOfDynamicBase(classes, dynamicBasePatterns) ==
    \E k \in 1..Len(dynamicBasePatterns) :
        /\ EveryBasePresent(dynamicBasePatterns[k], NewSet(classes))
        /\ Len(classes) > Len(dynamicBasePatterns[k].baseClasses)

matchesDynamicBase(classes, dynamicBasePatterns) ==
    \E k \in 1..Len(dynamicBasePatterns) :
        /\ ~(Len(classes) # Len(dynamicBasePatterns[k].baseClasses))
        /\ EveryBasePresent(dynamicBasePatterns[k], NewSet(classes))

SubsetTokens == {"h-4", "w-4", "lucide", "text-lg"}

SubsetLists == UNION {[1..n -> SubsetTokens] : n \in 0..MaxSubsetTokens}

SourceTypeSets == (SUBSET {"js", "html", "rsc"}) \ {{}}

\* the patterns of the detectMergeablePatterns tests
MergeCatalogue ==
    << [normalizedKey |-> "h-4 w-4", classes |-> <<"h-4", "w-4">>],
       [normalizedKey |-> "h-4 lucide lucide-copy w-4",
        classes |-> <<"lucide", "lucide-copy", "h-4", "w-4">>],
       [normalizedKey |-> "flex gap-2", classes |-> <<"flex", "gap-2">>],
       [normalizedKey |-> "font-bold text-lg",
        classes |-> <<"text-lg", "font-bold">>],
       [normalizedKey |-> "flex gap-2 items-center",
        classes |-> <<"flex", "gap-2", "items-center">>] >>

MergeSelections ==
    {sel \in SUBSET (1..Len(MergeCatalogue)) : Cardinality(sel) <= MaxPatterns}

\* the occurrence map holding the selected patterns, each seen in the given
\* contexts
MergeOccurrences(sel, seen) ==
    LET idx == SetToSeq(sel)
    IN  [k \in 1..Len(idx) |->
            Occ(JoinSpace(MergeCatalogue[idx[k]].classes),
                MergeCatalogue[idx[k]].normalizedKey, 1,
                MergeCatalogue[idx[k]].classes, <<>>, seen[idx[k]])]

DynamicTokens == {"px-4", "py-2", "bg-blue"}

DynamicClassLists == UNION {[1..n -> DynamicTokens] : n \in 0..MaxSubsetTokens}

DynamicBase(baseClasses) ==
    [baseClasses |-> baseClasses, normalizedKey |-> JoinSpace(baseClasses)]

DynamicBases ==
    {DynamicBase(<<"px-4", "py-2">>), DynamicBase(<<"px-4">>),
     DynamicBase(<<"bg-blue", "px-4", "py-2">>), DynamicBase(<<"flex", "gap-2">>)}

\* the Map of dynamic base patterns: none, one or two of them
DynamicBaseMaps ==
    {<<>>} \cup {<<b>> : b \in DynamicBases}
           \cup {<<pair[1], pair[2]>> :
                    pair \in {q \in DynamicBases \X DynamicBases : q[1] # q[2]}}

InitHydration ==
    /\ NoDetectorCall
    /\ bytesCall = NoBytesCall
    /\ hashCall = NoHashCall
    /\ \/ \E a \in SubsetLists, b \in SubsetLists :
            scanCall = [op |-> "isProperSubset", a |-> a, b |-> b,
                        returned |-> FALSE, value |-> FALSE]
       \/ \E sel \in MergeSelections :
            \E seen \in [sel -> SourceTypeSets] :
              scanCall = [op |-> "detectMergeablePatterns",
                          occurrences |-> MergeOccurrences(sel, seen),
                          returned |-> FALSE, mergeable |-> {}]
       \/ \E c \in DynamicClassLists, d \in DynamicBaseMaps :
            scanCall = [op |-> "dynamicBase", classes |-> c,
                        dynamicBasePatterns |-> d, returned |-> FALSE,
                        superset |-> FALSE, matches |-> FALSE]

IsProperSubset ==
    /\ scanCall.op = "isProperSubset" /\ ~scanCall.returned
    /\ scanCall' = [scanCall EXCEPT
                       !.returned = TRUE,
                       !.value = isProperSubset(scanCall.a, scanCall.b)]
    /\ UNCHANGED <<detectorVars, bytesCall, hashCall>>

DetectMergeablePatterns ==
    /\ scanCall.op = "detectMergeablePatterns" /\ ~scanCall.returned
    /\ scanCall' = [scanCall EXCEPT
                       !.returned = TRUE,
                       !.mergeable = detectMergeablePatterns(scanCall.occurrences)]
    /\ UNCHANGED <<detectorVars, bytesCall, hashCall>>

\* both dynamic-base checks applied to the same pattern
CheckDynamicBase ==
    /\ scanCall.op = "dynamicBase" /\ ~scanCall.returned
    /\ scanCall' = [scanCall EXCEPT
                       !.returned = TRUE,
                       !.superset = isSupersetOfDynamicBase(
                                        scanCall.classes,
                                        scanCall.dynamicBasePatterns),
                       !.matches = matchesDynamicBase(
                                       scanCall.classes,
                                       scanCall.dynamicBasePatterns)]
    /\ UNCHANGED <<detectorVars, bytesCall, hashCall>>

NextHydration ==
    \/ IsProperSubset
    \/ DetectMergeablePatterns
    \/ CheckDynamicBase

SpecHydration == InitHydration /\ [][NextHydration]_vars

----------------------------------------------------------------------------
(* Properties of detectConsolidatablePatterns *)

Done == pc = "done"

ResultRange == {result[i] : i \in 1..Len(result)}

OccRange == {occurrences[i] : i \in 1..Len(occurrences)}

InResult(key) == \E c \in ResultRange : c.normalizedKey = key

\* the occurrence a candidate was made from
SourceOf(c) == CHOOSE o \in OccRange : o.normalizedKey = c.normalizedKey

\* the provisional estimate of a returned candidate
ProvisionalOf(c) == estimatedBytesSaved(SourceOf(c), config)

\* C1: no returned candidate comes from an occurrence with
\* count < minOccurrences or classes.length < minClasses.
C1_MinimumsRespected ==
    Done =>
      \A o \in OccRange :
        (o.count < config.minOccurrences
            \/ Len(o.classes) < config.minClasses)
        => ~InResult(o.normalizedKey)

C1_Witness ==
    /\ Done
    /\ Len(result) > 0
    /\ \E o \in OccRange : o.count < config.minOccurrences
                            /\ Len(o.classes) >= config.minClasses
    /\ \E o \in OccRange : Len(o.classes) < config.minClasses
                            /\ o.count >= config.minOccurrences

\* C2: with forceAll = false every returned candidate has net positive
\* savings measured with its final bytesSaved (bytesSaved > 15 + 20 * |classes|).
C2_NetPositiveFinal ==
    (Done /\ ~config.forceAll) =>
      \A c \in ResultRange : hasNetPositiveSavings(c)

\* C3: for every returned candidate the provisional estimate (name of length
\* hashPrefix.length + 1) is at most the final bytesSaved.
C3_PlaceholderConservative ==
    Done => \A c \in ResultRange : ProvisionalOf(c) <= c.bytesSaved

\* C4: every returned candidate has final bytesSaved >= minBytesSaved.
C4_MinBytesSavedFinal ==
    Done => \A c \in ResultRange : c.bytesSaved >= config.minBytesSaved

\* C5: the returned array is sorted by final bytesSaved, non-increasing.
C5_SortedByBytesSaved ==
    Done =>
      \A i, j \in 1..Len(result) :
        i < j => result[i].bytesSaved >= result[j].bytesSaved

C5_Witness ==
    /\ Done
    /\ \E i, j \in 1..Len(result) :
         /\ i < j
         /\ result[i].bytesSaved > result[j].bytesSaved
         /\ result[i].frequency < result[j].frequency

\* the sequential index whose name a returned candidate carries
NameIndexOf(c) ==
    CHOOSE i \in 0..Len(occurrences) :
        generateSequentialName(i, config.hashPrefix) = c.hashName

\* the filters other than the two hydration filters, as the detector
\* applies them to one occurrence
PassesOtherFilters(o) ==
    /\ o.count >= config.minOccurrences
    /\ Len(o.classes) >= config.minClasses
    /\ ~(config.skipPatternsWithExcludedClasses /\ Len(o.excludedClasses) > 0)
    /\ estimatedBytesSaved(o, config) >= config.minBytesSaved
    /\ (config.forceAll
          \/ estimatedBytesSaved(o, config)
               > calculatePatternCSSOverhead(o.classes))

ObservedInBoth(o) == {"html", "js"} \subseteq o.sourceTypes

InMergeable(o) ==
    mergeablePatterns.passed /\ o.normalizedKey \in mergeablePatterns.keys

\* C6: names are assigned in descending frequency order: a more frequent
\* candidate has a smaller name index and a name that is not longer,
\* whatever the bytesSaved and the positions in the returned array.
C6_NamesByFrequency ==
    Done =>
      \A a, b \in ResultRange :
        a.frequency > b.frequency
        => /\ NameIndexOf(a) < NameIndexOf(b)
           /\ Len(a.hashName) <= Len(b.hashName)

C6_Witness ==
    /\ Done
    /\ \E i, j \in 1..Len(result) :
         /\ i < j
         /\ result[j].frequency > result[i].frequency
         /\ result[j].bytesSaved < result[i].bytesSaved
         /\ Len(result[j].hashName) < Len(result[i].hashName)

\* C7: within one call no two returned candidates share a hashName, and
\* every hashName starts with config.hashPrefix.
C7_UniquePrefixedNames ==
    Done =>
      /\ \A i, j \in 1..Len(result) :
           i # j => result[i].hashName # result[j].hashName
      /\ \A c \in ResultRange :
           /\ Len(c.hashName) > Len(config.hashPrefix)
           /\ SubSeq(c.hashName, 1, Len(config.hashPrefix)) = config.hashPrefix

C7_Witness ==
    /\ Done
    /\ Len(result) > BASE
    /\ \E c \in ResultRange : Len(c.hashName) = Len(config.hashPrefix) + 2

\* C8: with ssr = true an occurrence whose key is in the passed
\* mergeablePatterns set is never returned, even when observed in html and
\* js; with ssr = false, or with no set passed, the set has no effect and
\* the occurrence is returned when it passes the other filters.
C8_MergeableOnlyInSsr ==
    Done =>
      /\ (config.ssr /\ mergeablePatterns.passed)
           => \A c \in ResultRange :
                c.normalizedKey \notin mergeablePatterns.keys
      /\ ~config.ssr
           => \A o \in OccRange :
                (InMergeable(o) /\ PassesOtherFilters(o))
                => InResult(o.normalizedKey)
      /\ (config.ssr /\ ~mergeablePatterns.passed)
           => \A o \in OccRange :
                (ObservedInBoth(o) /\ PassesOtherFilters(o))
                => InResult(o.normalizedKey)

C8_Witness ==
    /\ Done
    /\ config.ssr
    /\ Len(result) > 0
    /\ \E o \in OccRange :
         /\ InMergeable(o)
         /\ ObservedInBoth(o)
         /\ PassesOtherFilters(o)
         /\ ~InResult(o.normalizedKey)

\* C9: with ssr = true and forceAll = false every returned candidate comes
\* from an occurrence observed in both html and js; with ssr = false the
\* source contexts do not affect the output.
C9_HydrationSafeOnly ==
    Done =>
      /\ (config.ssr /\ ~config.forceAll)
           => \A c \in ResultRange : ObservedInBoth(SourceOf(c))
      /\ ~config.ssr
           => \A o \in OccRange :
                PassesOtherFilters(o) => InResult(o.normalizedKey)

C9_Witness ==
    /\ Done
    /\ config.ssr
    /\ ~config.forceAll
    /\ Len(result) > 0
    /\ \E o \in OccRange :
         /\ ~ObservedInBoth(o)
         /\ ~InMergeable(o)
         /\ PassesOtherFilters(o)
         /\ ~InResult(o.normalizedKey)

\* C10 (as claimed): with forceAll = true and ssr = true an occurrence that
\* is not hydration-safe, or that is in the mergeablePatterns set, is still
\* returned when it passes the count, class-count and minimum-savings
\* filters.
C10_ForceAllBypassesHydration ==
    (Done /\ config.forceAll /\ config.ssr) =>
      \A o \in OccRange :
        ((~ObservedInBoth(o) \/ InMergeable(o)) /\ PassesOtherFilters(o))
        => InResult(o.normalizedKey)

\* C10 (amended): forceAll does not bypass the hydration filters: with
\* forceAll = true and ssr = true no returned candidate comes from an
\* occurrence that is not hydration-safe or that is in the passed
\* mergeablePatterns set.
C10_ForceAllKeepsHydrationFilters ==
    (Done /\ config.forceAll /\ config.ssr) =>
      \A c \in ResultRange :
        /\ ObservedInBoth(SourceOf(c))
        /\ ~InMergeable(SourceOf(c))

C10_Witness ==
    /\ Done
    /\ config.forceAll
    /\ config.ssr
    /\ Len(result) > 0
    /\ \E o \in OccRange :
         /\ ~ObservedInBoth(o)
         /\ PassesOtherFilters(o)
         /\ ~InResult(o.normalizedKey)
    /\ \E o \in OccRange :
         /\ InMergeable(o)
         /\ ObservedInBoth(o)
         /\ PassesOtherFilters(o)
         /\ ~InResult(o.normalizedKey)

\* the eligibility filters of the first pass, stated per occurrence
EligibleOcc(o) ==
    /\ o.count >= config.minOccurrences
    /\ Len(o.classes) >= config.minClasses
    /\ (config.ssr => (ObservedInBoth(o) /\ ~InMergeable(o)))
    /\ ~(config.skipPatternsWithExcludedClasses /\ Len(o.excludedClasses) > 0)

KeysOf(cands) == {cands[i].normalizedKey : i \in 1..Len(cands)}

\* C11: with forceAll = true the net-positive test is skipped: an eligible
\* occurrence whose provisional savings are >= minBytesSaved is returned even
\* when they do not exceed its CSS overhead, while with forceAll = false it is
\* rejected; the forceAll = true output is a superset of the forceAll = false
\* output, and the minBytesSaved threshold still applies.
C11_ForceAllSkipsNetPositive ==
    Done =>
      /\ config.forceAll
           => \A o \in OccRange :
                (EligibleOcc(o)
                   /\ estimatedBytesSaved(o, config) >= config.minBytesSaved)
                => InResult(o.normalizedKey)
      /\ ~config.forceAll
           => \A o \in OccRange :
                estimatedBytesSaved(o, config)
                    <= calculatePatternCSSOverhead(o.classes)
                => ~InResult(o.normalizedKey)
      /\ config.forceAll
           => KeysOf(detectConsolidatablePatterns(
                        occurrences, [config EXCEPT !.forceAll = FALSE],
                        mergeablePatterns))
                \subseteq KeysOf(result)
      /\ \A o \in OccRange :
           estimatedBytesSaved(o, config) < config.minBytesSaved
           => ~InResult(o.normalizedKey)

C11_Witness ==
    /\ Done
    /\ config.forceAll
    /\ \E o \in OccRange :
         /\ EligibleOcc(o)
         /\ estimatedBytesSaved(o, config) >= config.minBytesSaved
         /\ estimatedBytesSaved(o, config)
              <= calculatePatternCSSOverhead(o.classes)
         /\ InResult(o.normalizedKey)

\* C12: with skipPatternsWithExcludedClasses = true no returned candidate has
\* a non-empty excludedClasses list; with the flag false, excluded tokens do
\* not by themselves disqualify an occurrence.
C12_SkipPatternsWithExcluded ==
    Done =>
      /\ config.skipPatternsWithExcludedClasses
           => \A c \in ResultRange : Len(c.excludedClasses) = 0
      /\ ~config.skipPatternsWithExcludedClasses
           => \A o \in OccRange :
                (Len(o.excludedClasses) > 0 /\ EligibleOcc(o)
                   /\ PassesOtherFilters(o))
                => InResult(o.normalizedKey)

C12_Witness ==
    /\ Done
    /\ config.skipPatternsWithExcludedClasses
    /\ Len(result) > 0
    /\ \E o \in OccRange :
         /\ Len(o.excludedClasses) > 0
         /\ o.count >= config.minOccurrences
         /\ Len(o.classes) >= config.minClasses
         /\ (config.ssr => (ObservedInBoth(o) /\ ~InMergeable(o)))
         /\ estimatedBytesSaved(o, config) >= config.minBytesSaved
         /\ estimatedBytesSaved(o, config)
              > calculatePatternCSSOverhead(o.classes)
         /\ ~InResult(o.normalizedKey)

\* the fields a candidate takes over from its occurrence
CopiedFrom(c, o) ==
    /\ c.classString = o.classString
    /\ c.normalizedKey = o.normalizedKey
    /\ c.classes = o.classes
    /\ c.excludedClasses = o.excludedClasses
    /\ c.frequency = o.count

\* C28: detectConsolidatablePatterns is pure selection: no step changes the
\* occurrence map or an occurrence in it; at most one candidate is returned
\* per occurrence; each candidate copies classString, normalizedKey, classes
\* and excludedClasses from exactly one input occurrence, with frequency
\* equal to that occurrence's count; hashName and bytesSaved are the only
\* other fields.
C28_PureSelection ==
    /\ [][occurrences' = occurrences]_vars
    /\ [](Done =>
            /\ \A i, j \in 1..Len(result) :
                 i # j => result[i].normalizedKey # result[j].normalizedKey
            /\ \A c \in ResultRange :
                 /\ Cardinality({k \in 1..Len(occurrences) :
                                   CopiedFrom(c, occurrences[k])}) = 1
                 /\ DOMAIN c = {"classString", "normalizedKey", "classes",
                                "excludedClasses", "frequency", "hashName",
                                "bytesSaved"})

C28_Witness ==
    /\ Done
    /\ Len(result) >= 2
    /\ Len(result) < Len(occurrences)
    /\ \E c \in ResultRange :
         /\ c.classString # c.normalizedKey
         /\ Len(c.excludedClasses) > 0

\* C29: rejected patterns consume no name: the hashNames of the k returned
\* candidates are exactly generateSequentialName(i, hashPrefix) for
\* 0 <= i < k, whatever was rejected by the eligibility or byte filters, and
\* the candidate named hashPrefix + "a" has the maximal frequency among the
\* returned candidates.
C29_NoNameGaps ==
    Done =>
      /\ {c.hashName : c \in ResultRange}
           = {generateSequentialName(i, config.hashPrefix) :
                i \in 0..(Len(result) - 1)}
      /\ \A c \in ResultRange :
           c.hashName = config.hashPrefix \o "a"
           => \A d \in ResultRange : d.frequency <= c.frequency

C29_Witness ==
    /\ Done
    /\ Len(result) >= 2
    /\ \E o \in OccRange :
         /\ ~InResult(o.normalizedKey)
         /\ ~EligibleOcc(o)
         /\ \E c \in ResultRange : c.frequency < o.count
    /\ \E o \in OccRange :
         /\ ~InResult(o.normalizedKey)
         /\ EligibleOcc(o)
         /\ \E c \in ResultRange : c.frequency < o.count

\* validateConfig's three range rules (tests/config.test.ts 61-104)
OutOfRange(cfg) ==
    \/ cfg.minOccurrences < 1
    \/ cfg.minClasses < 1
    \/ cfg.hashPrefix = ""

\* C27: given out-of-range configuration values (minOccurrences < 1,
\* minClasses < 1 or an empty hashPrefix) detectConsolidatablePatterns does
\* not throw and returns an empty candidate list.
C27_OutOfRangeGivesEmpty ==
    (Done /\ OutOfRange(config)) => result = <<>>

----------------------------------------------------------------------------
(* Properties of calculateBytesSaved *)

RECURSIVE SumOfLengths(_)
SumOfLengths(xs) ==
    IF Len(xs) = 0 THEN 0 ELSE Len(xs[1]) + SumOfLengths(Tail(xs))

\* length of the excluded tokens joined by single spaces
JoinedLength(xs) ==
    IF Len(xs) = 0 THEN 0 ELSE SumOfLengths(xs) + (Len(xs) - 1)

\* C13: calculateBytesSaved(original, name, f, excluded) equals
\* (len(original) - len(excluded joined by spaces) - (1 if excluded is
\* non-empty) - len(name)) * f and may be negative; it is linear in f and
\* strictly increasing in len(original) for f > 0.
C13_BytesSavedFormula ==
    bytesCall.returned =>
      LET c == bytesCall
          sep == IF Len(c.excludedClasses) > 0 THEN 1 ELSE 0
      IN  /\ c.value = (Len(c.original) - JoinedLength(c.excludedClasses)
                          - sep - Len(c.hashName)) * c.frequency
          /\ calculateBytesSaved(c.original, c.hashName, 2 * c.frequency,
                                 c.excludedClasses) = 2 * c.value
          /\ \A o \in BytesOriginals :
               (Len(o) > Len(c.original) /\ c.frequency > 0)
               => calculateBytesSaved(o, c.hashName, c.frequency,
                                      c.excludedClasses) > c.value

C13_Witness ==
    /\ bytesCall.returned
    /\ bytesCall.value < 0
    /\ Len(bytesCall.excludedClasses) = 2
    /\ bytesCall.frequency > 1
    /\ Len(bytesCall.original) > 0

----------------------------------------------------------------------------
(* Properties of utils/hash.ts *)

NameReturned == hashCall.op = "name" /\ hashCall.returned

\* the 36 single-symbol identifiers in the order the documentation lists
\* them: the letters a..z, then the digits 0..9
ExpectedSymbols ==
    <<"a", "b", "c", "d", "e", "f", "g", "h", "i", "j", "k", "l", "m",
      "n", "o", "p", "q", "r", "s", "t", "u", "v", "w", "x", "y", "z",
      "0", "1", "2", "3", "4", "5", "6", "7", "8", "9">>

\* the two-symbol identifiers the documentation spells out
ExpectedAt(index) ==
    CASE index = 36 -> "aa"
      [] index = 37 -> "ab"
      [] index = 71 -> "a9"
      [] index = 72 -> "ba"

\* C14: generateSequentialName(index, prefix) is the prefix followed by the
\* identifier of the index: indices 0..25 give a..z, 26..35 give 0..9,
\* 36 gives aa, 37 ab, 71 a9 and 72 ba; with the empty prefix the result is
\* the bare identifier.
C14_SequentialNameValues ==
    NameReturned =>
        /\ hashCall.index < 36 =>
              hashCall.name = hashCall.prefix \o ExpectedSymbols[hashCall.index + 1]
        /\ hashCall.index \in {36, 37, 71, 72} =>
              hashCall.name = hashCall.prefix \o ExpectedAt(hashCall.index)
        /\ hashCall.prefix = "" /\ hashCall.index = 0 => hashCall.name = "a"
        /\ hashCall.prefix = "" /\ hashCall.index = 35 => hashCall.name = "9"
        /\ hashCall.prefix = "" /\ hashCall.index = 72 => hashCall.name = "ba"

C14_Witness ==
    NameReturned /\ hashCall.index = 72 /\ hashCall.prefix = "cp-"
                 /\ hashCall.name = "cp-ba"

NamesReturned == hashCall.op = "names" /\ hashCall.returned

\* the identifier (name without prefix) of every index up to MaxIndex
IdentifierTable == [j \in 0..MaxIndex |-> generateSequentialName(j, "")]

\* C15: for a fixed prefix distinct indices give distinct names, and
\* generateSequentialNames(n, p) returns exactly n pairwise-distinct names,
\* the i-th (from 0) being generateSequentialName(i, p); n = 0 gives the
\* empty list.
C15_DistinctSequentialNames ==
    /\ NameReturned =>
          \A j \in 0..MaxIndex :
              j # hashCall.index =>
                  hashCall.prefix \o IdentifierTable[j] # hashCall.name
    /\ NamesReturned =>
          /\ Len(hashCall.names) = hashCall.count
          /\ \A i, j \in 1..Len(hashCall.names) :
                i # j => hashCall.names[i] # hashCall.names[j]
          /\ \A i \in 1..Len(hashCall.names) :
                hashCall.names[i] = hashCall.prefix \o IdentifierTable[i - 1]
          /\ hashCall.count = 0 => hashCall.names = <<>>

C15_Witness ==
    /\ NamesReturned
    /\ hashCall.count > BASE
    /\ Len(hashCall.names) = hashCall.count
    /\ hashCall.names[BASE + 1] = hashCall.prefix \o "aa"

\* the name returned by generateSequentialName, without its prefix
ReturnedIdentifier ==
    SubSeq(hashCall.name, Len(hashCall.prefix) + 1, Len(hashCall.name))

RECURSIVE Power(_, _)
Power(b, e) == IF e = 0 THEN 1 ELSE b * Power(b, e - 1)

\* 36 + 36^2 + ... + 36^(k-1): the number of identifiers shorter than k
RECURSIVE ShorterThan(_)
ShorterThan(k) == IF k <= 1 THEN 0 ELSE Power(36, k - 1) + ShorterThan(k - 1)

IsSymbol(ch) == \E k \in 1..36 : ExpectedSymbols[k] = ch

SymbolRank(ch) == CHOOSE k \in 1..36 : ExpectedSymbols[k] = ch

\* rank of an identifier in the shortest-first, then alphabet-order,
\* enumeration of the non-empty strings over the 36 symbols
RECURSIVE ShortlexRankLoop(_, _, _)
ShortlexRankLoop(id, i, rank) ==
    IF i > Len(id) THEN rank - 1
    ELSE ShortlexRankLoop(id, i + 1, rank * 36 + SymbolRank(SubSeq(id, i, i)))

ShortlexRank(id) == ShortlexRankLoop(id, 1, 0)

\* C16: generateSequentialName enumerates the non-empty strings over the 36
\* symbols shortest first: every symbol is in the alphabet, the identifier
\* of index i is the i-th string of that enumeration, its length k satisfies
\* 36 + ... + 36^(k-1) <= i <= 36 + ... + 36^k - 1, and no smaller index
\* has a longer identifier.
C16_ShortestFirstBijection ==
    NameReturned =>
        LET id == ReturnedIdentifier
            k == Len(id)
        IN  /\ k >= 1
            /\ \A i \in 1..k : IsSymbol(SubSeq(id, i, i))
            /\ ShortlexRank(id) = hashCall.index
            /\ ShorterThan(k) <= hashCall.index
            /\ hashCall.index <= ShorterThan(k + 1) - 1
            /\ \A j \in 0..hashCall.index : Len(IdentifierTable[j]) <= k

C16_Witness ==
    /\ NameReturned
    /\ hashCall.index = ShorterThan(3)
    /\ ReturnedIdentifier = "aaa"

MinLengthReturned == hashCall.op = "minLength" /\ hashCall.returned

\* ceil(log_36(x)) for x >= 1
CeilLog36(x) == CHOOSE k \in 0..x : Power(36, k) >= x /\ (k > 0 => Power(36, k - 1) < x)

\* length of the longest identifier among generateSequentialName(0..n-1)
LongestAmongFirst(n) ==
    CHOOSE k \in 1..n :
        /\ \E j \in 0..(n - 1) : Len(IdentifierTable[j]) = k
        /\ \A j \in 0..(n - 1) : Len(IdentifierTable[j]) <= k

\* C17: calculateMinHashLength(N) = max(1, ceil(log_36(N+1))) is the length
\* of the longest identifier among the first N sequential names; for N <= 0
\* it is 1.
C17_MinHashLengthIsLongestName ==
    MinLengthReturned =>
        /\ hashCall.count <= 0 => hashCall.length = 1
        /\ hashCall.count >= 1 =>
              /\ hashCall.length = MathMax(1, CeilLog36(hashCall.count + 1))
              /\ hashCall.length = LongestAmongFirst(hashCall.count)

ResolveReturned == hashCall.op = "resolve" /\ hashCall.returned

\* when entry i is reached, an earlier entry holds the name h for a
\* normalizedKey other than entry i's
ClaimedByOther(i, h) ==
    \E j \in 1..(i - 1) :
        /\ hashCall.candidates[j].hashName = h
        /\ hashCall.candidates[j].normalizedKey # hashCall.input[i].normalizedKey

\* C18: after resolveCollisions no hashName is held by two entries with
\* different normalizedKey; an entry whose name is claimed by a different key
\* gets its original name followed by the first of the suffixes 1, 2, 3, ...
\* not claimed by a different key; an entry whose name is unclaimed or
\* claimed by the same normalizedKey keeps its name.
C18_CollisionsResolved ==
    ResolveReturned =>
        LET in == hashCall.input
            out == hashCall.candidates
        IN  /\ Len(out) = Len(in)
            /\ \A i \in 1..Len(in) : out[i].normalizedKey = in[i].normalizedKey
            /\ \A i, j \in 1..Len(out) :
                  out[i].hashName = out[j].hashName =>
                      out[i].normalizedKey = out[j].normalizedKey
            /\ \A i \in 1..Len(in) :
                  IF ClaimedByOther(i, in[i].hashName)
                  THEN \E suffix \in 1..Len(in) :
                         /\ out[i].hashName = in[i].hashName \o ToString(suffix)
                         /\ ~ClaimedByOther(i, out[i].hashName)
                         /\ \A t \in 1..(suffix - 1) :
                               ClaimedByOther(i, in[i].hashName \o ToString(t))
                  ELSE out[i].hashName = in[i].hashName

C18_Witness ==
    /\ ResolveReturned
    /\ Len(hashCall.input) = 3
    /\ hashCall.input[3].hashName = "cp-a"
    /\ hashCall.candidates[3].hashName = "cp-a2"
    /\ hashCall.candidates[2].hashName = "cp-a1"

----------------------------------------------------------------------------
(* Properties of core/scanner.ts *)

Range(xs) == {xs[i] : i \in 1..Len(xs)}

\* the token starts with a configured prefix, ends with a configured suffix,
\* equals a configured class or matches a configured pattern somewhere
MatchesSomeRule(token, rules) ==
    \/ \E prefix \in Range(rules.prefixes) : StartsWith(token, prefix)
    \/ \E suffix \in Range(rules.suffixes) : EndsWith(token, suffix)
    \/ token \in Range(rules.classes)
    \/ \E re \in Range(rules.patterns) :
          \E i \in 0..Len(token) : MatchesAt(re, token, i)

\* two rule objects holding the same rules, in whatever order
SameRules(e1, e2) ==
    /\ Range(e1.prefixes) = Range(e2.prefixes)
    /\ Range(e1.suffixes) = Range(e2.suffixes)
    /\ Range(e1.classes) = Range(e2.classes)
    /\ Range(e1.patterns) = Range(e2.patterns)

NoRules(e) ==
    /\ e.prefixes = <<>> /\ e.suffixes = <<>>
    /\ e.classes = <<>> /\ e.patterns = <<>>

\* C19: every call shouldExcludeClass(token, rules) returns TRUE exactly
\* when the token matches some prefix, suffix, exact class or pattern of the
\* rules; the same rules in another order give the same result; with no
\* rules nothing is excluded; repeated calls with the same arguments return
\* the same result and leave the rules object as it was.
C19_ExcludeIsPureDisjunction ==
    scanCall.op = "exclude" =>
        /\ \A k \in 1..Len(scanCall.results) :
              /\ scanCall.results[k]
                    = MatchesSomeRule(scanCall.className, scanCall.rules)
              /\ NoRules(scanCall.rules) => ~scanCall.results[k]
              /\ scanCall.results[k] = scanCall.results[1]
        /\ Len(scanCall.results) >= 1 =>
              \A e \in ExcludeRules :
                  SameRules(e, scanCall.rules) =>
                      shouldExcludeClass(scanCall.className, e).result
                          = scanCall.results[1]
        /\ scanCall.exclude = scanCall.rules

NormalizeReturned == scanCall.op = "normalize" /\ scanCall.returned

IsSpace(s, i) == CharAt(s, i) \in Whitespace

\* the positions where a maximal whitespace-free stretch of s begins
TokenStarts(s) ==
    {i \in 1..Len(s) : ~IsSpace(s, i) /\ (i = 1 \/ IsSpace(s, i - 1))}

\* the position where the stretch beginning at i ends
TokenEnd(s, i) ==
    CHOOSE j \in i..Len(s) :
        /\ \A k \in i..j : ~IsSpace(s, k)
        /\ j = Len(s) \/ IsSpace(s, j + 1)

\* the whitespace-separated tokens of s, in order of appearance
TokensOf(s) ==
    LET starts == TokenStarts(s)
        nth(k) == CHOOSE i \in starts :
                      Cardinality({j \in starts : j < i}) = k - 1
    IN  [k \in 1..Cardinality(starts) |->
            SubSeq(s, nth(k), TokenEnd(s, nth(k)))]

Count(xs, x) == Cardinality({i \in 1..Len(xs) : xs[i] = x})

\* a equals b or comes before it in lexicographic order
LexLeq(a, b) ==
    \/ a = b
    \/ \E k \in 1..(Len(b)) :
          /\ k - 1 <= Len(a)
          /\ SubSeq(a, 1, k - 1) = SubSeq(b, 1, k - 1)
          /\ \/ k - 1 = Len(a)
             \/ CodeUnit(CharAt(a, k)) < CodeUnit(CharAt(b, k))

\* xs rearranged into lexicographic order and joined by single spaces
SortedJoins(xs) ==
    {JoinSpace([k \in 1..Len(xs) |-> xs[f[k]]]) :
        f \in {g \in [1..Len(xs) -> 1..Len(xs)] :
                  /\ \A i, j \in 1..Len(xs) : i # j => g[i] # g[j]
                  /\ \A i \in 1..(Len(xs) - 1) :
                        LexLeq(xs[g[i]], xs[g[i + 1]])}}

\* C20: normalizeClassString partitions the whitespace-separated tokens of
\* the class string: each token occurrence is in exactly one of classes and
\* excludedClasses, classes holding the tokens no rule excludes and
\* excludedClasses those some rule excludes; no token is empty or contains
\* whitespace; normalized is the classes in lexicographic order joined by
\* single spaces.
C20_NormalizePartitions ==
    NormalizeReturned =>
        LET tokens == TokensOf(scanCall.classString)
            classes == scanCall.result.classes
            excludedClasses == scanCall.result.excludedClasses
            all == Range(tokens) \cup Range(classes) \cup Range(excludedClasses)
        IN  /\ \A x \in all :
                  Count(tokens, x) = Count(classes, x) + Count(excludedClasses, x)
            /\ \A x \in all :
                  x # "" /\ \A i \in 1..Len(x) : ~IsSpace(x, i)
            /\ \A x \in Range(classes) : ~MatchesSomeRule(x, scanCall.rules)
            /\ \A x \in Range(excludedClasses) :
                  MatchesSomeRule(x, scanCall.rules)
            /\ scanCall.result.normalized \in SortedJoins(classes)

\* xs is ys with some entries left out, the others in the same order
InOrderOfAppearance(xs, ys) ==
    \E f \in [1..Len(xs) -> 1..Len(ys)] :
        /\ \A i \in 1..Len(xs) : xs[i] = ys[f[i]]
        /\ \A i \in 1..(Len(xs) - 1) : f[i] < f[i + 1]

\* C21: the classes list returned by normalizeClassString is in
\* lexicographic order whatever the order of the tokens in the class string,
\* and excludedClasses keeps its tokens in their order of appearance.
C21_ClassesSorted ==
    NormalizeReturned =>
        LET classes == scanCall.result.classes
        IN  /\ \A i \in 1..(Len(classes) - 1) :
                  LexLeq(classes[i], classes[i + 1])
            /\ InOrderOfAppearance(scanCall.result.excludedClasses,
                                   TokensOf(scanCall.classString))

BothNormalized ==
    scanCall.op = "normalizeTwice" /\ Len(scanCall.results) = 2

\* the tokens of a class string that no rule excludes, as a set
IncludedTokenSet(classString, rules) ==
    {t \in Range(TokensOf(classString)) : ~MatchesSomeRule(t, rules)}

SameBag(xs, ys) ==
    \A x \in Range(xs) \cup Range(ys) : Count(xs, x) = Count(ys, x)

\* C22 as stated: two class strings get the same normalized key exactly
\* when their non-excluded tokens form the same set, whatever the order,
\* the whitespace, the repetitions and the excluded tokens.
C22_KeyIdentifiesTokenSet ==
    BothNormalized =>
        ( IncludedTokenSet(scanCall.classStrings[1], scanCall.rules)
            = IncludedTokenSet(scanCall.classStrings[2], scanCall.rules)
          <=> scanCall.results[1].normalized = scanCall.results[2].normalized )

\* C22 amended: two class strings get the same normalized key exactly when
\* their returned classes lists hold the same tokens the same number of
\* times, whatever the order, the whitespace and the excluded tokens.
C22_KeyIdentifiesClassesBag ==
    BothNormalized =>
        ( SameBag(scanCall.results[1].classes, scanCall.results[2].classes)
          <=> scanCall.results[1].normalized = scanCall.results[2].normalized )

C22_Witness ==
    /\ BothNormalized
    /\ scanCall.classStrings = <<"gap-2 flex", " flex\n\tgap-2  ">>
    /\ scanCall.results[1].classes # scanCall.results[2].classes
    /\ scanCall.results[1].normalized = "flex gap-2"
    /\ scanCall.results[2].normalized = "flex gap-2"

----------------------------------------------------------------------------
(* Properties of scanBuildOutput *)

Scanning == scanCall.op = "scanBuildOutput"

\* the sightings recorded so far for one key, in order
SightingsOf(key) ==
    SelectSeq(scanCall.sightings, LAMBDA g : g.normalized = key)

IsPrefix(xs, ys) == Len(xs) <= Len(ys) /\ SubSeq(ys, 1, Len(xs)) = xs

\* the state of one Map entry
EntryInvariant(pair) ==
    LET entry == pair.value
        seen == SightingsOf(pair.key)
    IN  /\ entry.normalizedKey = pair.key
        /\ entry.count >= 1
        /\ entry.count = Len(entry.locations)
        /\ Len(entry.classes) > 0
        /\ Len(entry.classes) >= scanCall.config.minClasses
        /\ Len(seen) = entry.count
        /\ entry.classString = seen[1].classString
        /\ entry.classes = seen[1].classes
        /\ entry.excludedClasses = seen[1].excludedClasses
        /\ entry.locations = [k \in 1..Len(seen) |-> seen[k].location]

\* what one step of the loops may do to the entries already in the Map
EntriesOnlyGrow ==
    /\ Len(scanCall.occurrences) <= Len(scanCall'.occurrences)
    /\ \A i \in 1..Len(scanCall.occurrences) :
         LET old == scanCall.occurrences[i]
             new == scanCall'.occurrences[i]
         IN  /\ new.key = old.key
             /\ new.value.count - old.value.count \in {0, 1}
             /\ new.value.count - old.value.count
                  = Len(new.value.locations) - Len(old.value.locations)
             /\ IsPrefix(old.value.locations, new.value.locations)
             /\ new.value.classString = old.value.classString
             /\ new.value.classes = old.value.classes
             /\ new.value.excludedClasses = old.value.excludedClasses

\* what a step that reports an error does
FailureLeavesEntries ==
    scanCall'.errors # scanCall.errors
    => /\ Len(scanCall'.errors) = Len(scanCall.errors) + 1
       /\ IsPrefix(scanCall.errors, scanCall'.errors)
       /\ scanCall'.occurrences = scanCall.occurrences
       /\ scanCall'.fileStats = scanCall.fileStats

\* C30: at every point of scanBuildOutput each Map entry is stored under
\* its own normalizedKey, has count >= 1 equal to the number of its
\* locations, has a non-empty classes list of at least config.minClasses
\* tokens, and has the classString, classes and excludedClasses of the
\* first string seen for its key; a later sighting only increments count
\* and appends a location, count never decreases, and a read failure adds
\* one entry to errors and leaves the entries of the other files as they
\* were.
C30_OccurrenceMapInvariant ==
    /\ [](Scanning =>
            /\ \A i \in 1..Len(scanCall.occurrences) :
                 EntryInvariant(scanCall.occurrences[i])
            /\ \A i, j \in 1..Len(scanCall.occurrences) :
                 i # j => scanCall.occurrences[i].key
                            # scanCall.occurrences[j].key)
    /\ [][Scanning => (EntriesOnlyGrow /\ FailureLeavesEntries)]_vars

C30_Witness ==
    /\ Scanning /\ scanCall.returned
    /\ Len(scanCall.scanned) = 3
    /\ Len(scanCall.fileStats) = 2
    /\ Len(scanCall.errors) = 1
    /\ scanCall.fileStats[1].path = scanCall.scanned[1]
    /\ scanCall.fileStats[2].path = scanCall.scanned[3]
    /\ Len(scanCall.occurrences) >= 2
    /\ \E i \in 1..Len(scanCall.occurrences) :
         LET entry == scanCall.occurrences[i].value
             seen == SightingsOf(scanCall.occurrences[i].key)
         IN  /\ entry.count >= 3
             /\ \E k \in 2..Len(seen) :
                  /\ seen[k].classString # entry.classString
                  /\ seen[k].classes # entry.classes
             /\ entry.locations[1].filePath
                  # entry.locations[entry.count].filePath

----------------------------------------------------------------------------
(* Properties of the hydration-safety helpers *)

SubsetReturned == scanCall.op = "isProperSubset" /\ scanCall.returned

\* C24: isProperSubset(A, B) is TRUE exactly when every token of A occurs
\* in B and A has strictly fewer distinct tokens than B; it is FALSE for
\* equal sets, for A with more tokens than B or with a token not in B, and
\* for two empty lists; TRUE for empty A and non-empty B; never TRUE in both
\* directions.
C24_ProperSubset ==
    SubsetReturned =>
        LET A == Range(scanCall.a)
            B == Range(scanCall.b)
        IN  /\ scanCall.value <=> (A \subseteq B /\ A # B)
            /\ A = B => ~scanCall.value
            /\ Cardinality(A) > Cardinality(B) => ~scanCall.value
            /\ (\E token \in A : token \notin B) => ~scanCall.value
            /\ A = {} /\ B # {} => scanCall.value
            /\ A = {} /\ B = {} => ~scanCall.value
            /\ ~(scanCall.value /\ isProperSubset(scanCall.b, scanCall.a))

C24_Witness ==
    /\ SubsetReturned
    /\ scanCall.a = <<"h-4", "w-4">>
    /\ scanCall.b = <<"lucide", "h-4", "w-4">>
    /\ scanCall.value

MergeableReturned ==
    scanCall.op = "detectMergeablePatterns" /\ scanCall.returned

MergeInput == Range(scanCall.occurrences)

\* some other pattern seen only in markup has a token set of which A's is a
\* strict subset
HasMarkupOnlySuperset(A) ==
    \E B \in MergeInput :
        /\ B.normalizedKey # A.normalizedKey
        /\ B.sourceTypes = {"html"}
        /\ Range(A.classes) \subseteq Range(B.classes)
        /\ Range(A.classes) # Range(B.classes)

\* C23: detectMergeablePatterns returns exactly the normalizedKeys of the
\* patterns seen only in script that have a strict superset seen only in
\* markup; a pattern seen in both script and markup, a markup-only pattern
\* and a script-only pattern without such a superset are never flagged.
C23_MergeableExactly ==
    MergeableReturned =>
        /\ \A A \in MergeInput :
              A.normalizedKey \in scanCall.mergeable
                  <=> (A.sourceTypes = {"js"} /\ HasMarkupOnlySuperset(A))
        /\ \A key \in scanCall.mergeable :
              \E A \in MergeInput : A.normalizedKey = key
        /\ \A A \in MergeInput :
              {"js", "html"} \subseteq A.sourceTypes
                  => A.normalizedKey \notin scanCall.mergeable
        /\ \A A \in MergeInput :
              A.sourceTypes = {"html"}
                  => A.normalizedKey \notin scanCall.mergeable
        /\ \A A \in MergeInput :
              A.sourceTypes = {"js"} /\ ~HasMarkupOnlySuperset(A)
                  => A.normalizedKey \notin scanCall.mergeable

C23_Witness ==
    /\ MergeableReturned
    /\ scanCall.mergeable = {"h-4 w-4"}
    /\ \E A \in MergeInput :
          A.normalizedKey = "flex gap-2" /\ A.sourceTypes = {"js"}
    /\ \E B \in MergeInput :
          B.normalizedKey = "h-4 lucide lucide-copy w-4"

DynamicReturned == scanCall.op = "dynamicBase" /\ scanCall.returned

ContainsBase(classes, base) ==
    \A token \in Range(base.baseClasses) : token \in Range(classes)

Reverse(xs) == [i \in 1..Len(xs) |-> xs[Len(xs) + 1 - i]]

\* C25: a pattern is at risk (exact match or superset reported) exactly
\* when for some dynamic base it contains every base token and has as many
\* tokens as the base or more; the superset check reports the bases with
\* strictly fewer tokens, the exact-match check those with as many, whatever
\* the order of the tokens; for one and the same base the two checks never
\* both report; a pattern lacking a token of every base is reported by
\* neither.
C25_DynamicBaseRisk ==
    DynamicReturned =>
        LET classes == scanCall.classes
            bases == Range(scanCall.dynamicBasePatterns)
        IN  /\ (scanCall.superset \/ scanCall.matches) <=>
                  \E base \in bases :
                      /\ ContainsBase(classes, base)
                      /\ \/ Len(classes) = Len(base.baseClasses)
                         \/ Len(classes) > Len(base.baseClasses)
            /\ scanCall.superset <=>
                  \E base \in bases :
                      /\ ContainsBase(classes, base)
                      /\ Len(classes) > Len(base.baseClasses)
            /\ scanCall.matches <=>
                  \E base \in bases :
                      /\ ContainsBase(classes, base)
                      /\ Len(classes) = Len(base.baseClasses)
            /\ scanCall.matches
                  = matchesDynamicBase(Reverse(classes),
                                       scanCall.dynamicBasePatterns)
            /\ \A base \in bases :
                  ~(/\ isSupersetOfDynamicBase(classes, <<base>>)
                    /\ matchesDynamicBase(classes, <<base>>))
            /\ (\A base \in bases : ~ContainsBase(classes, base))
                  => ~scanCall.superset /\ ~scanCall.matches

C25_Witness ==
    /\ DynamicReturned
    /\ scanCall.classes = <<"py-2", "px-4">>
    /\ Len(scanCall.dynamicBasePatterns) = 2
    /\ scanCall.dynamicBasePatterns[1].baseClasses = <<"px-4", "py-2">>
    /\ scanCall.dynamicBasePatterns[2].baseClasses = <<"px-4">>
    /\ scanCall.matches
    /\ scanCall.superset

----------------------------------------------------------------------------
(* Properties of getPatternSummary *)

SummaryReturned == bytesCall.op = "getPatternSummary" /\ bytesCall.returned

\* the quotient q is the number a / b, for b # 0
IsQuotientOf(q, a, b) ==
    q.denominator # 0 /\ q.numerator * b = a * q.denominator

IsZero(q) == q.denominator # 0 /\ q.numerator = 0

RECURSIVE SumOfField(_, _)
SumOfField(cands, field) ==
    IF cands = <<>> THEN 0
    ELSE (CASE field = "frequency" -> Head(cands).frequency
            [] field = "bytesSaved" -> Head(cands).bytesSaved
            [] field = "classes" -> Len(Head(cands).classes))
         + SumOfField(Tail(cands), field)

\* C26: getPatternSummary returns totalPatterns = the number of candidates,
\* totalOccurrences = the sum of frequency, totalBytesSaved = the sum of
\* bytesSaved, avgFrequency = totalOccurrences / totalPatterns and
\* avgClassesPerPattern = (sum of |classes|) / totalPatterns; for the empty
\* list every field is 0 and nothing is divided by zero.
C26_PatternSummary ==
    SummaryReturned =>
        LET cands == bytesCall.candidates
            summary == bytesCall.summary
        IN  /\ summary.totalPatterns = Len(cands)
            /\ summary.totalOccurrences = SumOfField(cands, "frequency")
            /\ summary.totalBytesSaved = SumOfField(cands, "bytesSaved")
            /\ summary.avgFrequency.denominator # 0
            /\ summary.avgClassesPerPattern.denominator # 0
            /\ Len(cands) > 0 =>
                  /\ IsQuotientOf(summary.avgFrequency,
                                  summary.totalOccurrences,
                                  summary.totalPatterns)
                  /\ IsQuotientOf(summary.avgClassesPerPattern,
                                  SumOfField(cands, "classes"),
                                  summary.totalPatterns)
            /\ Len(cands) = 0 =>
                  /\ summary.totalPatterns = 0
                  /\ summary.totalOccurrences = 0
                  /\ summary.totalBytesSaved = 0
                  /\ IsZero(summary.avgFrequency)
                  /\ IsZero(summary.avgClassesPerPattern)

C26_Witness ==
    /\ SummaryReturned
    /\ Len(bytesCall.candidates) = 2
    /\ bytesCall.summary.totalOccurrences = 10
    /\ bytesCall.summary.totalBytesSaved = 300
    /\ bytesCall.summary.avgFrequency = Quotient(10, 2)
    /\ bytesCall.summary.avgClassesPerPattern = Quotient(5, 2)

====
